---- MODULE Spec2Model ----
(***************************************************************************)
(* A model of vws_web_tools: the XPath string-literal builder, the polling  *)
(* waits of the browser flows, the timeout-retry decorator and the          *)
(* command-line commands that own the browser session.                      *)
(*                                                                          *)
(* Strings are sequences of one-character strings, so that quoting is       *)
(* modelled character by character.                                         *)
(***************************************************************************)
EXTENDS Integers, Sequences, FiniteSets, TLC

VARIABLES
    value,          \* XPathSpec: the argument of _xpath_literal
    result,         \* XPathSpec: what _xpath_literal returned
    xpc,            \* XPathSpec: "input" before the call, "returned" after
    args,           \* the options the command line gives
    cmd,            \* the command that runs
    target_name,    \* its --target-name / --template-name, <<>> if none
    pc,             \* "start", "run", "release", "echo", "exit"
    seg,            \* the function of the command that is running
    step,           \* the statement of that function that is next
    attempt,        \* the number of the running attempt of that function
    attempt_logs,   \* per function: how each of its attempts ended
    wait_status,    \* "idle", "polling", "returned", "raised", "timeout"
    wait_trace,     \* what each evaluation of the wait's predicate did
    wait_step,      \* the wait the trace belongs to
    err,            \* the exception that left the flow, "none" if none
    session,        \* the browser session: "none", "open", "released"
    releases,       \* how often the session was released
    xpath_queries,  \* the XPath expressions sent to the driver
    printed,        \* whether the command wrote its result
    page_target,    \* how the page showed the target to the last lookup
    href,           \* the href attribute read from the target link
    target_link,    \* what _find_vumark_target_link returned
    instance_id,    \* what get_vumark_target_id returned
    lookup_error,   \* the exception that left _find_vumark_target_link
    lookups,        \* how often _find_vumark_target_link was called
    visited,        \* page loads in the running attempt of the function
    dismissals,     \* cookie-banner dismissals in that attempt
    link_parts,     \* TargetIdSpec: what the link was put together from
    row_seen,       \* where the listing held the row at the attempt's last scan
    record,         \* the key texts the running details function has read
    swallowed,      \* the exception the attempt's last suppress block ate
    submits,        \* clicks on the submit button of a creation form
    output,         \* the lines the command has written
    ran,            \* per function: the statements its last attempt has passed
    rows,           \* RowSpec: the texts of the rows find_elements returned
    row_name,       \* RowSpec: the license_name / database_name asked for
    row_i,          \* RowSpec: the index in rows the for loop has reached
    row_clicks,     \* RowSpec: the indices of the rows clicked, in order
    returned,       \* RowSpec: "running", or how the evaluation ended
    is_call_expr,   \* PluginSpec: whether ctx.context is a CallExpr
    arg_kinds,      \* PluginSpec: ctx.context.arg_kinds of the call site
    failures,       \* PluginSpec: how often ctx.api.fail was called
    hook            \* PluginSpec: "called", or how the function hook ended

xvars == <<value, result, xpc>>
fvars == <<args, cmd, target_name, pc, seg, step, attempt, attempt_logs,
           wait_status, wait_trace, wait_step, err, session, releases,
           xpath_queries, printed>>
pvars == <<page_target, href, target_link, instance_id, lookup_error,
           lookups, visited, dismissals, link_parts, row_seen>>
cvars == <<record, swallowed, submits, output>>
rvars == <<rows, row_name, row_i, row_clicks, returned>>
hvars == <<is_call_expr, arg_kinds, failures, hook>>
vars == <<xvars, fvars, pvars, cvars, ran, rvars, hvars>>

(***************************************************************************)
(* Characters and bounded strings                                           *)
(***************************************************************************)
SQ == "'"
DQ == "\""

\* The alphabet of the names the model draws: two plain characters and the
\* two quote characters.
Chars == {"a", "b", SQ, DQ}

\* Longest name the model draws.
MaxLen == 3

RECURSIVE StringsOfLen(_)
StringsOfLen(n) ==
    IF n = 0 THEN {<<>>}
    ELSE {Append(s, c) : s \in StringsOfLen(n - 1), c \in Chars}

Strings == UNION {StringsOfLen(n) : n \in 0..MaxLen}

Contains(s, c) == \E i \in 1..Len(s) : s[i] = c

\* t occurs in s as a contiguous fragment.
HasFragment(s, t) ==
    \E i \in 0..(Len(s) - Len(t)) :
        \A j \in 1..Len(t) : s[i + j] = t[j]

(***************************************************************************)
(* _xpath_literal                                                           *)
(***************************************************************************)
\* A plausible slip: wrapping in double quotes instead of single quotes.
xpath_literal_double(val) == <<DQ>> \o val \o <<DQ>>

\* return f"'{value}'"
_xpath_literal(val) == <<SQ>> \o val \o <<SQ>>

(***************************************************************************)
(* What an XPath 1.0 processor makes of a string expression: a Literal is   *)
(* '"' [^"]* '"' or "'" [^']* "'", and concat(e1, e2, ...) joins the values *)
(* of its arguments.                                                        *)
(***************************************************************************)
IsQuote(c) == c = SQ \/ c = DQ

\* The index of the first occurrence of c in s at or after i, 0 if none.
RECURSIVE IndexFrom(_, _, _)
IndexFrom(s, c, i) ==
    IF i > Len(s) THEN 0
    ELSE IF s[i] = c THEN i
    ELSE IndexFrom(s, c, i + 1)

\* s is exactly one Literal: an opening quote, no further occurrence of that
\* quote before the last character, and the same quote as last character.
IsLiteral(s) ==
    /\ Len(s) >= 2
    /\ IsQuote(s[1])
    /\ IndexFrom(s, s[1], 2) = Len(s)

LiteralValue(s) == SubSeq(s, 2, Len(s) - 1)

ConcatOpen == <<"c", "o", "n", "c", "a", "t", "(">>
ArgSep == <<",", " ">>
ConcatClose == <<")">>

StartsWithAt(s, t, i) ==
    /\ i + Len(t) - 1 <= Len(s)
    /\ \A j \in 1..Len(t) : s[i + j - 1] = t[j]

\* Reads the argument list of a concat( starting at index i: a Literal, then
\* either ", " and more arguments, or ")" as the last character.  Returns
\* [ok, val]: whether the text parses and the joined value of the arguments.
RECURSIVE ParseArgs(_, _, _)
ParseArgs(s, i, acc) ==
    IF i > Len(s) \/ ~IsQuote(s[i]) THEN [ok |-> FALSE, val |-> <<>>]
    ELSE
        LET close == IndexFrom(s, s[i], i + 1) IN
        IF close = 0 THEN [ok |-> FALSE, val |-> <<>>]
        ELSE
            LET acc2 == acc \o SubSeq(s, i + 1, close - 1) IN
            IF StartsWithAt(s, ArgSep, close + 1)
            THEN ParseArgs(s, close + 1 + Len(ArgSep), acc2)
            ELSE IF StartsWithAt(s, ConcatClose, close + 1)
                    /\ close + 1 = Len(s)
            THEN [ok |-> TRUE, val |-> acc2]
            ELSE [ok |-> FALSE, val |-> <<>>]

\* The evaluation of a string expression: [ok, val].
XPathEval(s) ==
    IF IsLiteral(s) THEN [ok |-> TRUE, val |-> LiteralValue(s)]
    ELSE IF StartsWithAt(s, ConcatOpen, 1)
    THEN ParseArgs(s, Len(ConcatOpen) + 1, <<>>)
    ELSE [ok |-> FALSE, val |-> <<>>]

\* value.split("'")
RECURSIVE Split(_, _)
Split(s, c) ==
    LET i == IndexFrom(s, c, 1) IN
    IF i = 0 THEN <<s>>
    ELSE <<SubSeq(s, 1, i - 1)>> \o Split(SubSeq(s, i + 1, Len(s)), c)

\* The concat(...) expression of a text: its segments between single quotes,
\* each in single quotes, with the fragment "'" between two segments.
RECURSIVE JoinSegments(_)
JoinSegments(segs) ==
    IF Len(segs) = 1 THEN <<SQ>> \o segs[1] \o <<SQ>>
    ELSE <<SQ>> \o segs[1] \o <<SQ>> \o ArgSep \o <<DQ, SQ, DQ>> \o ArgSep
             \o JoinSegments(Tail(segs))

ConcatForm(val) == ConcatOpen \o JoinSegments(Split(val, SQ)) \o ConcatClose

(***************************************************************************)
(* Exceptions                                                               *)
(***************************************************************************)
\* selenium.common.exceptions: every exception of the driver derives from
\* WebDriverException.  "WebDriverException" as the type of a raised
\* exception stands for one that is none of the named subclasses (a click
\* that is intercepted, a lost session).  InvalidSelectorException is what
\* a lookup raises for an expression that is not XPath.
DriverExceptions ==
    {"TimeoutException", "NoSuchElementException",
     "StaleElementReferenceException", "InvalidSelectorException",
     "WebDriverException"}

IsInstance(e, cls) ==
    \/ e = cls
    \/ cls = "WebDriverException" /\ e \in DriverExceptions

\* A too-wide ignore list: every driver exception is swallowed by the waits.
ignored_exceptions_all == {"WebDriverException"}

\* ignored_exceptions=(NoSuchElementException, StaleElementReferenceException)
ignored_exceptions ==
    {"NoSuchElementException", "StaleElementReferenceException"}

\* WebDriverWait(driver=driver, timeout=30) without ignored_exceptions: the
\* wait ignores NoSuchElementException only.
default_ignored == {"NoSuchElementException"}

(***************************************************************************)
(* Steps of a flow.  A call is one driver or element call that returns or   *)
(* raises one of `raises`; a wait is one WebDriverWait.until whose          *)
(* predicate, each time it is evaluated, does one of `outcomes` ("truthy",  *)
(* "falsy" or the exception it raises).  `query` is the XPath expression    *)
(* the step sends to the driver, <<>> if it sends none.                     *)
(***************************************************************************)
Call(fn, name, raises) ==
    [op |-> "call", fn |-> fn, name |-> name, raises |-> raises,
     suppress |-> {}, query |-> <<>>]

SuppressedCall(fn, name, raises, suppress) ==
    [op |-> "call", fn |-> fn, name |-> name, raises |-> raises,
     suppress |-> suppress, query |-> <<>>]

QueryCall(fn, name, raises, query) ==
    [op |-> "call", fn |-> fn, name |-> name, raises |-> raises,
     suppress |-> {}, query |-> query]

Wait(fn, name, timeout, ignored, outcomes) ==
    [op |-> "wait", fn |-> fn, name |-> name, timeout |-> timeout,
     ignored |-> ignored, outcomes |-> outcomes, query |-> <<>>]

QueryWait(fn, name, timeout, ignored, outcomes, query) ==
    [op |-> "wait", fn |-> fn, name |-> name, timeout |-> timeout,
     ignored |-> ignored, outcomes |-> outcomes, query |-> query]

\* What the driver calls can raise.
GetRaises == {"TimeoutException", "WebDriverException"}
FindRaises == {"NoSuchElementException", "WebDriverException"}
ElementRaises == {"StaleElementReferenceException", "WebDriverException"}
ScriptRaises == {"WebDriverException"}

\* What one evaluation of the expected_conditions predicates can do.
presence_of_element_located ==
    {"truthy", "NoSuchElementException", "WebDriverException"}
element_to_be_clickable ==
    {"truthy", "falsy", "NoSuchElementException",
     "StaleElementReferenceException", "WebDriverException"}
url_changes == {"truthy", "falsy", "WebDriverException"}
staleness_of == {"truthy", "falsy", "WebDriverException"}

(***************************************************************************)
(* The flows of vws_web_tools                                               *)
(***************************************************************************)
\* The script runs inside contextlib.suppress(WebDriverException).
dismiss_cookie_banner_suppressed ==
    <<SuppressedCall("_dismiss_cookie_banner", "driver.execute_script",
                     ScriptRaises, {"WebDriverException"})>>

_dismiss_cookie_banner ==
    <<Call("_dismiss_cookie_banner", "driver.execute_script", ScriptRaises)>>

\* The login button is clicked before the banner is dismissed.
log_in_once_click_first ==
    <<Call("_log_in_once", "driver.get(log_in_url)", GetRaises),
      Wait("_log_in_once", "presence(login_email)", 30, default_ignored,
           presence_of_element_located),
      Call("_log_in_once", "email.send_keys", ElementRaises),
      Call("_log_in_once", "find_element(login_password)", FindRaises),
      Call("_log_in_once", "password.send_keys", ElementRaises),
      Call("_log_in_once", "find_element(login)", FindRaises),
      Call("_log_in_once", "login_button.click", ElementRaises)>>
    \o _dismiss_cookie_banner

_log_in_once ==
    <<Call("_log_in_once", "driver.get(log_in_url)", GetRaises),
      Wait("_log_in_once", "presence(login_email)", 30, default_ignored,
           presence_of_element_located),
      Call("_log_in_once", "email.send_keys", ElementRaises),
      Call("_log_in_once", "find_element(login_password)", FindRaises),
      Call("_log_in_once", "password.send_keys", ElementRaises)>>
    \o _dismiss_cookie_banner \o
    <<Call("_log_in_once", "find_element(login)", FindRaises),
      Call("_log_in_once", "login_button.click", ElementRaises)>>

wait_for_logged_in ==
    <<Wait("wait_for_logged_in", "logged_in", 60, ignored_exceptions,
           {"truthy", "falsy", "WebDriverException"})>>
    \o _dismiss_cookie_banner

log_in == _log_in_once \o wait_for_logged_in

create_license ==
    <<Call("create_license", "driver.get(new_license_url)", GetRaises)>>
    \o _dismiss_cookie_banner \o
    <<Wait("create_license", "presence(license-name)", 30, default_ignored,
           presence_of_element_located),
      Call("create_license", "license_name.send_keys", ElementRaises),
      Call("create_license", "find_element(agree-terms-checkbox)",
           FindRaises),
      Call("create_license", "agree_terms.click", ElementRaises),
      Wait("create_license", "clickable(confirm)", 30, default_ignored,
           element_to_be_clickable),
      Call("create_license", "confirm_button.click", ElementRaises),
      Wait("create_license", "url_changes", 30, default_ignored,
           url_changes)>>

LicenseRowsQuery ==
    <<"//span[starts-with(@id, 'table_row_') and contains(@id, '_app_name')]">>

\* _click_license_row: find_elements, row.text, row.click
_click_license_row ==
    {"truthy", "falsy", "StaleElementReferenceException",
     "WebDriverException"}

\* The confirmation is clicked once more when the dialog has gone.
delete_license_confirms_twice ==
    <<Call("delete_license", "driver.get(licenses_url)", GetRaises)>>
    \o _dismiss_cookie_banner \o
    <<Wait("delete_license", "presence(table_search)", 30,
           ignored_exceptions, presence_of_element_located),
      Wait("delete_license", "clickable(table_row_0_app_name)", 30,
           ignored_exceptions, element_to_be_clickable),
      Call("delete_license", "find_element(table_search)", FindRaises),
      Call("delete_license", "search.clear", ElementRaises),
      Call("delete_license", "search.send_keys(license_name)",
           ElementRaises),
      Call("delete_license", "search.send_keys(ENTER)", ElementRaises),
      QueryWait("delete_license", "_click_license_row", 30,
                ignored_exceptions, _click_license_row, LicenseRowsQuery),
      Wait("delete_license", "presence(license-header-name)", 30,
           ignored_exceptions, presence_of_element_located)>>
    \o _dismiss_cookie_banner \o
    <<Wait("delete_license", "clickable(Delete License Key)", 30,
           ignored_exceptions, element_to_be_clickable),
      Call("delete_license", "delete_link.click", ElementRaises),
      Wait("delete_license", "clickable(delete)", 30, ignored_exceptions,
           element_to_be_clickable),
      Call("delete_license", "confirm_button.click", ElementRaises),
      Wait("delete_license", "staleness_of(confirm_button)", 30,
           ignored_exceptions, staleness_of)>>
    \o <<Call("delete_license", "confirm_button.click", ElementRaises)>>

delete_license ==
    <<Call("delete_license", "driver.get(licenses_url)", GetRaises)>>
    \o _dismiss_cookie_banner \o
    <<Wait("delete_license", "presence(table_search)", 30,
           ignored_exceptions, presence_of_element_located),
      Wait("delete_license", "clickable(table_row_0_app_name)", 30,
           ignored_exceptions, element_to_be_clickable),
      Call("delete_license", "find_element(table_search)", FindRaises),
      Call("delete_license", "search.clear", ElementRaises),
      Call("delete_license", "search.send_keys(license_name)",
           ElementRaises),
      Call("delete_license", "search.send_keys(ENTER)", ElementRaises),
      QueryWait("delete_license", "_click_license_row", 30,
                ignored_exceptions, _click_license_row, LicenseRowsQuery),
      Wait("delete_license", "presence(license-header-name)", 30,
           ignored_exceptions, presence_of_element_located)>>
    \o _dismiss_cookie_banner \o
    <<Wait("delete_license", "clickable(Delete License Key)", 30,
           ignored_exceptions, element_to_be_clickable),
      Call("delete_license", "delete_link.click", ElementRaises),
      Wait("delete_license", "clickable(delete)", 30, ignored_exceptions,
           element_to_be_clickable),
      Call("delete_license", "confirm_button.click", ElementRaises),
      Wait("delete_license", "staleness_of(confirm_button)", 30,
           ignored_exceptions, staleness_of)>>

_open_add_database_dialog ==
    <<Call("_open_add_database_dialog", "driver.get(target_manager_url)",
           GetRaises)>>
    \o _dismiss_cookie_banner \o
    <<Wait("_open_add_database_dialog", "presence(add-dialog-btn)", 30,
           ignored_exceptions, presence_of_element_located),
      Wait("_open_add_database_dialog", "clickable(add-dialog-btn)", 30,
           ignored_exceptions, element_to_be_clickable),
      Call("_open_add_database_dialog", "find_element(add-dialog-btn)",
           FindRaises),
      Call("_open_add_database_dialog", "add_database_button.click",
           ElementRaises),
      SuppressedCall("_open_add_database_dialog",
                     "add_database_button.click again", ElementRaises,
                     {"WebDriverException"}),
      Wait("_open_add_database_dialog", "presence(database-name)", 30,
           ignored_exceptions, presence_of_element_located),
      Call("_open_add_database_dialog", "find_element(database-name)",
           FindRaises),
      Call("_open_add_database_dialog", "database_name.send_keys",
           ElementRaises)>>

_submit_add_database_dialog ==
    <<Call("_submit_add_database_dialog", "find_element(generate-btn)",
           FindRaises),
      Call("_submit_add_database_dialog", "generate_button.click",
           ElementRaises),
      Wait("_submit_add_database_dialog", "staleness_of(generate_button)",
           30, ignored_exceptions, staleness_of)>>

\* After _open_add_database_dialog returned.
create_cloud_database ==
    <<Call("create_cloud_database", "find_element(cloud-radio-btn)",
           FindRaises),
      Call("create_cloud_database", "cloud_radio.click", ElementRaises),
      Wait("create_cloud_database", "license option present", 30,
           ignored_exceptions,
           {"truthy", "falsy", "NoSuchElementException",
            "StaleElementReferenceException", "WebDriverException"}),
      Call("create_cloud_database", "find_element(cloud-license-dropdown)",
           FindRaises),
      Call("create_cloud_database", "select_by_visible_text",
           FindRaises \cup ElementRaises)>>
    \o _submit_add_database_dialog

\* After _open_add_database_dialog returned.
create_vumark_database ==
    <<Call("create_vumark_database", "find_element(vumark-radio-btn)",
           FindRaises),
      Call("create_vumark_database", "vumark_radio.click", ElementRaises)>>
    \o _submit_add_database_dialog

DatabaseRowsQuery ==
    <<"//span[starts-with(@id, 'table_row_') and contains(@id, '_project_name')]">>

\* _click_database_row: find_elements, row.text, row.click
_click_database_row ==
    {"truthy", "falsy", "StaleElementReferenceException",
     "WebDriverException"}

navigate_to_database ==
    <<Call("navigate_to_database", "driver.get(target_manager_url)",
           GetRaises)>>
    \o _dismiss_cookie_banner \o
    <<Wait("navigate_to_database", "presence(table_search)", 180,
           ignored_exceptions, presence_of_element_located),
      Wait("navigate_to_database", "clickable(table_row_0_project_name)",
           180, ignored_exceptions, element_to_be_clickable),
      Call("navigate_to_database", "find_element(table_search)",
           FindRaises),
      Call("navigate_to_database", "search.clear", ElementRaises),
      Call("navigate_to_database", "search.send_keys(database_name)",
           ElementRaises),
      Call("navigate_to_database", "search.send_keys(ENTER)",
           ElementRaises),
      QueryWait("navigate_to_database", "_click_database_row", 180,
                ignored_exceptions, _click_database_row,
                DatabaseRowsQuery)>>

\* The predicate every target lookup builds around the quoted name.
target_row_predicate(tname) ==
    <<"starts-with(@id, 'table_row_') and substring(@id, string-length(@id) - string-length('_target_name') + 1 ) = '_target_name'",
      " and ", "normalize-space(.) = ">>
    \o _xpath_literal(tname)

AnchorQuery(tname) ==
    <<"//a[">> \o target_row_predicate(tname) \o <<"]">>

AnyElementQuery(tname) ==
    <<"//*[">> \o target_row_predicate(tname) \o <<"]">>

upload_vumark_template(template_name) ==
    navigate_to_database \o
    <<Wait("upload_vumark_template", "clickable(add-dialog-btn)", 30,
           ignored_exceptions, element_to_be_clickable),
      Call("upload_vumark_template", "add_target_button.click",
           ElementRaises),
      Wait("upload_vumark_template", "presence(input file)", 30,
           ignored_exceptions, presence_of_element_located),
      Call("upload_vumark_template", "file_input.send_keys",
           ElementRaises),
      Wait("upload_vumark_template", "presence(input Width)", 30,
           ignored_exceptions, presence_of_element_located),
      Call("upload_vumark_template", "width_input.clear", ElementRaises),
      Call("upload_vumark_template", "width_input.send_keys",
           ElementRaises),
      Call("upload_vumark_template", "find_element(input Name)",
           FindRaises),
      Call("upload_vumark_template", "name_input.clear", ElementRaises),
      Call("upload_vumark_template", "name_input.send_keys",
           ElementRaises),
      Wait("upload_vumark_template", "clickable(add)", 30,
           ignored_exceptions, element_to_be_clickable),
      Call("upload_vumark_template", "add_button.click", ElementRaises),
      QueryWait("upload_vumark_template", "presence(target name cell)",
                180, ignored_exceptions, presence_of_element_located,
                AnyElementQuery(template_name))>>

\* find_element(target-key-tab), click, return True
_click_target_key_tab ==
    {"truthy", "NoSuchElementException", "StaleElementReferenceException",
     "WebDriverException"}

\* bool(find_elements(//a[...]))
_target_link_found == {"truthy", "falsy", "WebDriverException"}

\* find_elements(//a[...]); target_link_elements[0], which raises IndexError
\* when the list is empty; get_attribute(href) and return str(...).
_find_vumark_target_link(tname) ==
    <<[op |-> "lookup", fn |-> "_find_vumark_target_link",
       name |-> "find_elements(//a[...])", raises |-> ScriptRaises,
       query |-> AnchorQuery(tname)],
      [op |-> "index", fn |-> "_find_vumark_target_link",
       name |-> "target_link_elements[0]"],
      [op |-> "attr", fn |-> "_find_vumark_target_link",
       name |-> "get_attribute(href)", raises |-> ElementRaises]>>

wait_for_vumark_target_link(tname) ==
    navigate_to_database \o
    <<Wait("wait_for_vumark_target_link", "_click_target_key_tab", 180,
           ignored_exceptions, _click_target_key_tab),
      QueryWait("wait_for_vumark_target_link", "_target_link_found", 180,
                ignored_exceptions, _target_link_found,
                AnchorQuery(tname))>>

get_vumark_target_id(tname) ==
    navigate_to_database \o
    <<Wait("get_vumark_target_id", "_click_target_key_tab", 30,
           ignored_exceptions, _click_target_key_tab),
      Wait("get_vumark_target_id", "presence(table_search)", 30,
           ignored_exceptions, presence_of_element_located),
      QueryWait("get_vumark_target_id", "presence(target row)", 30,
                ignored_exceptions, presence_of_element_located,
                AnyElementQuery(tname))>>
    \o _find_vumark_target_link(tname)

\* What a grey box can show when its text is read: blank or a key.
BoxTexts == {" ", "key"}

\* Reading the text of an element into a field of the record; `texts` is
\* what the element can show at that moment.
ReadText(fn, name, field, texts, raises) ==
    [op |-> "text", fn |-> fn, name |-> name, field |-> field,
     texts |-> texts, raises |-> raises]

\* find_elements(grey-box), boxes[0].text, boxes[1].text.
ReadKeyBoxes(fn, key_id, access_key, secret_key) ==
    <<Call(fn, "find_element(" \o key_id \o ")", FindRaises),
      Call(fn, key_id \o ".find_elements(grey-box)", ElementRaises),
      ReadText(fn, key_id \o " boxes[0].text", access_key, BoxTexts,
               ElementRaises \cup {"IndexError"}),
      ReadText(fn, key_id \o " boxes[1].text", secret_key, BoxTexts,
               ElementRaises \cup {"IndexError"})>>

KeyBoxesFilled ==
    {"truthy", "falsy", "NoSuchElementException",
     "StaleElementReferenceException", "WebDriverException"}

get_database_details ==
    navigate_to_database \o
    <<Wait("get_database_details", "presence(Database Access Keys)", 180,
           ignored_exceptions, presence_of_element_located),
      Call("get_database_details", "access_keys_tab_item.click",
           ElementRaises),
      Wait("get_database_details", "key boxes filled", 180,
           ignored_exceptions, KeyBoxesFilled)>>
    \o ReadKeyBoxes("get_database_details", "client-access-key",
                    "client_access_key", "client_secret_key")
    \o ReadKeyBoxes("get_database_details", "server-access-key",
                    "server_access_key", "server_secret_key")

get_vumark_database_details ==
    navigate_to_database \o
    <<Wait("get_vumark_database_details", "presence(Database Access Keys)",
           180, ignored_exceptions, presence_of_element_located),
      Call("get_vumark_database_details", "access_keys_tab_item.click",
           ElementRaises),
      Wait("get_vumark_database_details", "key boxes filled", 180,
           ignored_exceptions, KeyBoxesFilled)>>
    \o ReadKeyBoxes("get_vumark_database_details", "server-access-key",
                    "server_access_key", "server_secret_key")

\* get_license_details, like get_database_details but for the key of a
\* license: the key is read like a grey box, whatever the page shows then.
get_license_details_rereads ==
    <<Call("get_license_details", "driver.get(licenses_url)", GetRaises)>>
    \o _dismiss_cookie_banner \o
    <<QueryWait("get_license_details", "_click_license_row", 30,
                ignored_exceptions, _click_license_row, LicenseRowsQuery),
      ReadText("get_license_details", "license_key.text", "license_key",
               BoxTexts, ElementRaises)>>

\* get_license_details: open the licenses page, click the row of the
\* license, and return the key the page shows for it once it shows one.
get_license_details ==
    <<Call("get_license_details", "driver.get(licenses_url)", GetRaises)>>
    \o _dismiss_cookie_banner \o
    <<QueryWait("get_license_details", "_click_license_row", 30,
                ignored_exceptions, _click_license_row, LicenseRowsQuery),
      ReadText("get_license_details", "license_key.text", "license_key",
               BoxTexts \ {" "}, ElementRaises)>>

(***************************************************************************)
(* The first version of the tool (src/vws-web-tools): no retry, no          *)
(* try/finally around the flows.                                            *)
(***************************************************************************)
legacy_log_in ==
    <<Call("legacy_log_in", "driver.get(log_in_url)", GetRaises),
      Call("legacy_log_in", "find_element_by_id(login_email)", FindRaises),
      Call("legacy_log_in", "email.send_keys", ElementRaises),
      Call("legacy_log_in", "find_element_by_id(login_password)",
           FindRaises),
      Call("legacy_log_in", "password.send_keys", ElementRaises),
      Call("legacy_log_in", "password.send_keys(RETURN)", ElementRaises),
      Wait("legacy_log_in", "presence(get-development-key)", 10,
           default_ignored, presence_of_element_located)>>

legacy_create_license ==
    <<Call("legacy_create_license", "driver.get(licenses_url)", GetRaises),
      Wait("legacy_create_license", "presence(get-development-key)", 10,
           default_ignored, presence_of_element_located),
      Call("legacy_create_license", "get_development_key.click",
           ElementRaises),
      Wait("legacy_create_license", "presence(license-name)", 10,
           default_ignored, presence_of_element_located),
      Call("legacy_create_license", "license_name.send_keys",
           ElementRaises),
      Call("legacy_create_license", "find_element_by_id(agree-terms)",
           FindRaises),
      Call("legacy_create_license", "agree_terms.submit", ElementRaises)>>

(***************************************************************************)
(* The timeout-retry decorator                                              *)
(***************************************************************************)
\* A decorator that retries on every driver exception.
retry_decorator_any_exception ==
    [retry_on |-> "WebDriverException", max_attempt_number |-> 3]

\* A decorator that allows one attempt more.
retry_decorator_four_attempts ==
    [retry_on |-> "TimeoutException", max_attempt_number |-> 4]

\* retry(retry=retry_if_exception_type(TimeoutException),
\*       stop=stop_after_attempt(max_attempt_number=3))
_TIMEOUT_RETRY_DECORATOR ==
    [retry_on |-> "TimeoutException", max_attempt_number |-> 3]

\* A decorator without stop=: a timeout is always answered by a new attempt.
after_exception_retry_forever(decorated, e, n) ==
    IF decorated /\ IsInstance(e, _TIMEOUT_RETRY_DECORATOR.retry_on)
    THEN "retry"
    ELSE "reraise"

\* retry(..., reraise=True): the last timeout itself reaches the caller.
after_exception_reraise(decorated, e, n) ==
    IF decorated /\ IsInstance(e, _TIMEOUT_RETRY_DECORATOR.retry_on)
          /\ n < _TIMEOUT_RETRY_DECORATOR.max_attempt_number
    THEN "retry"
    ELSE "reraise"

\* What becomes of exception e raised by attempt number n of a function:
\* "retry" (the function is called again), "RetryError" (the attempts are
\* used up) or "reraise" (e reaches the caller).
AfterException(decorated, e, n) ==
    IF decorated /\ IsInstance(e, _TIMEOUT_RETRY_DECORATOR.retry_on)
    THEN IF n < _TIMEOUT_RETRY_DECORATOR.max_attempt_number
         THEN "retry" ELSE "RetryError"
    ELSE "reraise"

(***************************************************************************)
(* The commands.  A command is the functions it calls in order (with        *)
(* whether each is wrapped by the retry decorator), whether the calls are   *)
(* inside try/finally, and whether it prints the result afterwards.         *)
(***************************************************************************)
Seg(fn, decorated, steps) ==
    [fn |-> fn, decorated |-> decorated, steps |-> steps]

LogIn == Seg("log_in", TRUE, log_in)

\* create_license under the retry decorator.
create_vws_license_retried ==
    [segments |-> <<LogIn, Seg("create_license", TRUE, create_license)>>,
     scoped |-> TRUE, echo |-> FALSE]

create_vws_license ==
    [segments |-> <<LogIn, Seg("create_license", FALSE, create_license)>>,
     scoped |-> TRUE, echo |-> FALSE]

delete_vws_license ==
    [segments |-> <<LogIn, Seg("delete_license", TRUE, delete_license)>>,
     scoped |-> TRUE, echo |-> FALSE]

\* The whole of create_cloud_database under the retry decorator.
create_vws_cloud_database_retried ==
    [segments |->
        <<LogIn,
          Seg("_open_add_database_dialog", TRUE, _open_add_database_dialog),
          Seg("create_cloud_database", TRUE, create_cloud_database)>>,
     scoped |-> TRUE, echo |-> FALSE]

create_vws_cloud_database ==
    [segments |->
        <<LogIn,
          Seg("_open_add_database_dialog", TRUE, _open_add_database_dialog),
          Seg("create_cloud_database", FALSE, create_cloud_database)>>,
     scoped |-> TRUE, echo |-> FALSE]

create_vws_vumark_database ==
    [segments |->
        <<LogIn,
          Seg("_open_add_database_dialog", TRUE, _open_add_database_dialog),
          Seg("create_vumark_database", FALSE, create_vumark_database)>>,
     scoped |-> TRUE, echo |-> FALSE]

\* The value of --database-type on the command line.
database_type ==
    IF "--database-type=cloud" \in args THEN "cloud" ELSE "vumark"

\* create-vws-database that creates a cloud database whatever the type.
create_vws_database_always_cloud(dtype) ==
    [segments |->
        <<LogIn,
          Seg("_open_add_database_dialog", TRUE, _open_add_database_dialog),
          Seg("create_cloud_database", FALSE, create_cloud_database)>>,
     scoped |-> TRUE, echo |-> FALSE]

\* create-vws-database: create_vumark_database or create_cloud_database,
\* by the database type.
create_vws_database(dtype) ==
    [segments |->
        <<LogIn,
          Seg("_open_add_database_dialog", TRUE, _open_add_database_dialog),
          IF dtype = "cloud"
          THEN Seg("create_cloud_database", FALSE, create_cloud_database)
          ELSE Seg("create_vumark_database", FALSE, create_vumark_database)>>,
     scoped |-> TRUE, echo |-> FALSE]

upload_vumark_template_to_database(template_name) ==
    [segments |->
        <<LogIn,
          Seg("upload_vumark_template", FALSE,
              upload_vumark_template(template_name))>>,
     scoped |-> TRUE, echo |-> FALSE]

get_vumark_instance_id(tname) ==
    [segments |->
        <<LogIn,
          Seg("get_vumark_target_id", FALSE,
              get_vumark_target_id(tname))>>,
     scoped |-> TRUE, echo |-> TRUE]

wait_for_vumark_instance_id(tname) ==
    [segments |->
        <<LogIn,
          Seg("wait_for_vumark_target_link", TRUE,
              wait_for_vumark_target_link(tname)),
          Seg("get_vumark_target_id", FALSE,
              get_vumark_target_id(tname))>>,
     scoped |-> TRUE, echo |-> TRUE]

show_database_details ==
    [segments |->
        <<LogIn, Seg("get_database_details", TRUE, get_database_details)>>,
     scoped |-> TRUE, echo |-> TRUE]

show_vumark_database_details ==
    [segments |->
        <<LogIn,
          Seg("get_vumark_database_details", TRUE,
              get_vumark_database_details)>>,
     scoped |-> TRUE, echo |-> TRUE]

show_license_details ==
    [segments |->
        <<LogIn, Seg("get_license_details", TRUE, get_license_details)>>,
     scoped |-> TRUE, echo |-> TRUE]

\* src/vws-web-tools: log_in, create_license, driver.close() in a row.
legacy_create_vws_license ==
    [segments |->
        <<Seg("legacy_log_in", FALSE, legacy_log_in),
          Seg("legacy_create_license", FALSE, legacy_create_license)>>,
     scoped |-> FALSE, echo |-> FALSE]

NamedCommands ==
    {"upload_vumark_template_to_database", "get_vumark_instance_id",
     "wait_for_vumark_instance_id"}

CommandNames ==
    {"create_vws_license", "delete_vws_license",
     "create_vws_cloud_database", "create_vws_vumark_database",
     "create_vws_database", "show_license_details",
     "show_database_details", "show_vumark_database_details",
     "legacy_create_vws_license"} \cup NamedCommands

Command(c, name) ==
    CASE c = "create_vws_license" -> create_vws_license
      [] c = "delete_vws_license" -> delete_vws_license
      [] c = "create_vws_cloud_database" -> create_vws_cloud_database
      [] c = "create_vws_vumark_database" -> create_vws_vumark_database
      [] c = "create_vws_database" -> create_vws_database(database_type)
      [] c = "upload_vumark_template_to_database" ->
            upload_vumark_template_to_database(name)
      [] c = "get_vumark_instance_id" -> get_vumark_instance_id(name)
      [] c = "wait_for_vumark_instance_id" ->
            wait_for_vumark_instance_id(name)
      [] c = "show_license_details" -> show_license_details
      [] c = "show_database_details" -> show_database_details
      [] c = "show_vumark_database_details" -> show_vumark_database_details
      [] c = "legacy_create_vws_license" -> legacy_create_vws_license

(***************************************************************************)
(* The command line                                                         *)
(***************************************************************************)
Account == {"--email-address", "--password"}

\* The options a command declares for the parameters of its function that
\* have no default.
options(c) ==
    CASE c \in {"create_vws_license", "delete_vws_license",
                "show_license_details", "legacy_create_vws_license"} ->
            {"--license-name"} \cup Account
      [] c = "create_vws_cloud_database" ->
            {"--license-name", "--database-name"} \cup Account
      [] c \in {"create_vws_vumark_database", "show_database_details",
                "show_vumark_database_details"} ->
            {"--database-name"} \cup Account
      [] c = "create_vws_database" ->
            {"--database-name", "--database-type"} \cup Account
      [] c = "upload_vumark_template_to_database" ->
            {"--database-name", "--svg-file-path", "--template-name",
             "--width"} \cup Account
      [] c \in {"get_vumark_instance_id", "wait_for_vumark_instance_id"} ->
            {"--database-name", "--target-name"} \cup Account

\* The flags a command declares.
flags(c) ==
    IF c \in {"show_database_details", "show_vumark_database_details",
              "show_license_details"}
    THEN {"--env-var-format"} ELSE {}

\* The options a command declares with required=True: all of them in
\* vws_web_tools, none in the first version.
required_options(c) ==
    IF c = "legacy_create_vws_license" THEN {} ELSE options(c)

\* The options a command line must give besides the required ones:
\* create-vws-database needs --license-name for a cloud database.
conditional_options(c) ==
    IF c = "create_vws_database" /\ database_type = "cloud"
    THEN {"--license-name"} ELSE {}

\* What create-vws-database may be given besides its options: the value of
\* --database-type, and --license-name.
DatabaseTypeValues == {"--database-type=cloud", "--database-type=vumark"}
Extras(c) ==
    IF c = "create_vws_database"
    THEN {{t} \cup l : t \in DatabaseTypeValues,
                       l \in SUBSET {"--license-name"}}
    ELSE {{}}

\* The command lines: every option given (with or without the flags), or
\* one option left out.
Invocations(c) ==
    {options(c) \cup f \cup x : f \in SUBSET flags(c), x \in Extras(c)}
        \cup (IF c = "create_vws_database" THEN {}
              ELSE {options(c) \ {o} : o \in options(c)})

\* The option whose value the element call of step s types, if any.
TypedOption(s) ==
    CASE s.name = "email.send_keys" -> {"--email-address"}
      [] s.name = "password.send_keys" -> {"--password"}
      [] s.name = "license_name.send_keys" -> {"--license-name"}
      [] OTHER -> {}

(***************************************************************************)
(* XPathSpec: _xpath_literal applied to every bounded string                *)
(***************************************************************************)
(***************************************************************************)
(* The page as the target lookups see it, and the link of a target          *)
(***************************************************************************)
\* The cell with the target name: not on the page, plain text, or an anchor.
TargetStates == {"absent", "text", "link"}

\* Which elements the XPath expression of a step selects: "anchor" for
\* //a[...], "any" for //*[...], "none" when it is no target lookup.
Observes(s) ==
    IF s.query # <<>> /\ s.query[1] = "//a[" THEN "anchor"
    ELSE IF s.query # <<>> /\ s.query[1] = "//*[" THEN "any"
    ELSE "none"

\* Whether the lookup finds an element on a page in state obs.
Matches(kind, obs) ==
    \/ kind = "anchor" /\ obs = "link"
    \/ kind = "any" /\ obs \in {"text", "link"}

\* What an evaluation of a predicate can do on a page in state obs.
Consistent(s, obs, outcome) ==
    \/ Observes(s) = "none"
    \/ /\ outcome = "truthy" => Matches(Observes(s), obs)
       /\ outcome \in {"falsy", "NoSuchElementException"}
             => ~Matches(Observes(s), obs)

\* The listing of databases is paginated: the row with the name is on the
\* page that is shown, on a further page, or on no page.
RowStates == {"here", "further", "nowhere"}

\* _click_database_row scans the rows of the page that is shown.
ScansListing(s) == s.query = DatabaseRowsQuery

\* for row in rows: if row.text.strip() == database_name: ... return True;
\* return False
ScanConsistent(s, row, outcome) ==
    \/ ~ScansListing(s)
    \/ /\ outcome = "truthy" => row = "here"
       /\ outcome = "falsy" => row # "here"

\* The quoted target name inside the expression of a target lookup.
QuotedName(s) == SubSeq(s.query, 5, Len(s.query) - 1)

\* Whether the driver can evaluate the expression of the step.
WellFormed(s) == Observes(s) = "none" \/ XPathEval(QuotedName(s)).ok

\* What one evaluation does: an expression that is not XPath cannot be
\* evaluated.
EvalOutcomes(s) ==
    IF WellFormed(s) THEN s.outcomes
    ELSE {"InvalidSelectorException", "WebDriverException"}

\* Scheme and host of a link, as one token.
Origin == "https://developer.vuforia.com"

Unset == <<"<unset>">>
PyNone == <<"<None>">>

\* str(object=target_link)
str(h) == IF h = PyNone THEN <<"N", "o", "n", "e">> ELSE h

\* The href values the page gives in Spec.
HrefSamples ==
    {PyNone, <<>>, <<Origin, "/">>, <<Origin, "/", "d", "/", "x">>,
     <<Origin, "/", "d", "/", "x", "/", "?", "q">>}

RECURSIVE TakeUntil(_, _)
TakeUntil(s, stops) ==
    IF s = <<>> \/ Head(s) \in stops THEN <<>>
    ELSE <<Head(s)>> \o TakeUntil(Tail(s), stops)

\* urlparse(url=target_link).path
UrlPath(u) ==
    TakeUntil(IF u # <<>> /\ u[1] = Origin THEN Tail(u) ELSE u, {"?", "#"})

\* url_path.rstrip("/")
RECURSIVE RStrip(_, _)
RStrip(s, c) ==
    IF s # <<>> /\ s[Len(s)] = c THEN RStrip(SubSeq(s, 1, Len(s) - 1), c)
    ELSE s

\* Without rstrip: the last segment of a path with a trailing slash is empty.
target_id_no_rstrip(link) ==
    LET segs == Split(UrlPath(link), "/") IN segs[Len(segs)]

\* url_path.rstrip("/").split(sep="/")[-1]
TargetIdOf(link) ==
    LET segs == Split(RStrip(UrlPath(link), "/"), "/") IN segs[Len(segs)]

NoParts == [path |-> <<>>, query |-> <<>>, fragment |-> <<>>]

\* The plugin variables while the function hook is not called.
HookIdle ==
    /\ is_call_expr = FALSE
    /\ arg_kinds = <<>>
    /\ failures = 0
    /\ hook = "idle"

\* The row variables while no row predicate is evaluated.
RowIdle ==
    /\ rows = <<>>
    /\ row_name = <<>>
    /\ row_i = 0
    /\ row_clicks = <<>>
    /\ returned = "idle"

\* page_target is the state of the target on the page at the last lookup
\* of it, "unseen" before the first.  The page variables before any lookup:
PageIdle ==
    /\ page_target = "unseen"
    /\ href = Unset
    /\ target_link = Unset
    /\ instance_id = Unset
    /\ lookup_error = "none"
    /\ lookups = 0
    /\ visited = 0
    /\ dismissals = 0
    /\ row_seen = "unseen"

\* No exception was suppressed.
NoSwallow == [fn |-> "none", name |-> "none", e |-> "none"]

\* The clicks that send a creation form.
SubmitClicks ==
    {"confirm_button.click", "generate_button.click", "agree_terms.submit"}

\* The key fields of a record, and a field before its box is read.
KeyFields ==
    {"server_access_key", "server_secret_key",
     "client_access_key", "client_secret_key"}
Unread == "<unread>"
NoRecord == [f \in KeyFields \cup {"license_key"} |-> Unread]

\* box.text.strip()
strip(t) == IF t = " " THEN "" ELSE t

\* The --database-name a command is given.
database_name == "database-name"

\* The --license-name a command is given.
license_name == "license-name"

\* The keys of the dict a details function returns.
DetailsFields(fn) ==
    CASE fn = "get_database_details" -> {"database_name"} \cup KeyFields
      [] fn = "get_license_details" -> {"license_name", "license_key"}
      [] OTHER -> {"database_name", "server_access_key", "server_secret_key"}

\* return {"database_name": database_name, "server_access_key": ..., ...}
ReturnedDict(fn) ==
    [f \in DetailsFields(fn) |->
        CASE f = "database_name" -> database_name
          [] f = "license_name" -> license_name
          [] OTHER -> record[f]]

\* VUFORIA_SERVER_ACCESS_KEY and VUFORIA_SERVER_SECRET_KEY change places.
env_var_names_swapped ==
    <<<<"VUFORIA_TARGET_MANAGER_DATABASE_NAME", "database_name">>,
      <<"VUFORIA_SERVER_ACCESS_KEY", "server_secret_key">>,
      <<"VUFORIA_SERVER_SECRET_KEY", "server_access_key">>,
      <<"VUFORIA_CLIENT_ACCESS_KEY", "client_access_key">>,
      <<"VUFORIA_CLIENT_SECRET_KEY", "client_secret_key">>,
      <<"VUFORIA_LICENSE_NAME", "license_name">>,
      <<"VUFORIA_LICENSE_KEY", "license_key">>>>

\* The variable names of env_var_format_details with the fields they show,
\* in the order of the dict.
env_var_names ==
    <<<<"VUFORIA_TARGET_MANAGER_DATABASE_NAME", "database_name">>,
      <<"VUFORIA_SERVER_ACCESS_KEY", "server_access_key">>,
      <<"VUFORIA_SERVER_SECRET_KEY", "server_secret_key">>,
      <<"VUFORIA_CLIENT_ACCESS_KEY", "client_access_key">>,
      <<"VUFORIA_CLIENT_SECRET_KEY", "client_secret_key">>,
      <<"VUFORIA_LICENSE_NAME", "license_name">>,
      <<"VUFORIA_LICENSE_KEY", "license_key">>>>

\* env_var_format_details = {"VUFORIA_...": details[...], ...}
env_var_format_details(details) ==
    LET names == SelectSeq(env_var_names,
                           LAMBDA kv : kv[2] \in DOMAIN details)
    IN [i \in 1..Len(names) |-> <<names[i][1], details[names[i][2]]>>]

\* for key, value in ...items(): click.echo(message=f"{key}={value}")
env_lines(pairs) ==
    [i \in 1..Len(pairs) |-> <<pairs[i][1], "=", pairs[i][2]>>]

\* How YAML writes a string: the empty string in quotes.
yaml_scalar(v) == IF v = "" THEN "''" ELSE v

\* yaml.dump(data=details): one "key: value" line per key, keys sorted.
yaml_dump(details) ==
    LET keys == SelectSeq(<<"client_access_key", "client_secret_key",
                            "database_name", "license_key", "license_name",
                            "server_access_key", "server_secret_key">>,
                          LAMBDA k : k \in DOMAIN details)
    IN [i \in 1..Len(keys) |-> <<keys[i], ": ", yaml_scalar(details[keys[i]])>>]

\* The flow variables while no command runs.
FlowIdle ==
    /\ cmd = "none"
    /\ args = {}
    /\ target_name = <<>>
    /\ pc = "exit"
    /\ seg = 1
    /\ step = 1
    /\ attempt = 1
    /\ attempt_logs = <<>>
    /\ wait_status = "idle"
    /\ wait_trace = <<>>
    /\ wait_step = [fn |-> "none", name |-> "none"]
    /\ err = "none"
    /\ session = "none"
    /\ releases = 0
    /\ xpath_queries = {}
    /\ printed = FALSE

XInit ==
    /\ value \in Strings
    /\ result = <<>>
    /\ xpc = "input"
    /\ FlowIdle
    /\ PageIdle
    /\ link_parts = NoParts
    /\ record = NoRecord
    /\ swallowed = NoSwallow
    /\ submits = 0
    /\ output = <<>>
    /\ ran = <<>>
    /\ RowIdle
    /\ HookIdle

CallXPathLiteral ==
    /\ xpc = "input"
    /\ result' = _xpath_literal(value)
    /\ xpc' = "returned"
    /\ UNCHANGED <<value, fvars, pvars, cvars>>
    /\ UNCHANGED <<ran, rvars, hvars>>

XNext == CallXPathLiteral

XPathSpec == XInit /\ [][XNext]_vars

(***************************************************************************)
(* Spec: one invocation of a command                                        *)
(***************************************************************************)
\* Longest target name a command is given.
MaxNameLen == 1

\* Most evaluations of its predicate one wait makes before its deadline has
\* passed for certain.
MaxPolls == 2

\* The target names a command is given: one letter and the two quotes are
\* what the code tells apart in a name.
NameChars == {"a", SQ, DQ}
Names ==
    {s \in UNION {StringsOfLen(n) : n \in 0..MaxNameLen} :
        \A i \in 1..Len(s) : s[i] \in NameChars}

Cmd == Command(cmd, target_name)
CurSeg == Cmd.segments[seg]
CurStep == CurSeg.steps[step]

Init ==
    /\ value = <<>>
    /\ result = <<>>
    /\ xpc = "returned"
    /\ cmd \in CommandNames
    /\ args \in Invocations(cmd)
    /\ target_name \in (IF cmd \in NamedCommands THEN Names ELSE {<<>>})
    /\ pc = "parse"
    /\ seg = 1
    /\ step = 1
    /\ attempt = 1
    /\ attempt_logs = [i \in 1..Len(Cmd.segments) |-> <<>>]
    /\ wait_status = "idle"
    /\ wait_trace = <<>>
    /\ wait_step = [fn |-> "none", name |-> "none"]
    /\ err = "none"
    /\ session = "none"
    /\ releases = 0
    /\ xpath_queries = {}
    /\ printed = FALSE
    /\ PageIdle
    /\ link_parts = NoParts
    /\ record = NoRecord
    /\ swallowed = NoSwallow
    /\ submits = 0
    /\ output = <<>>
    /\ ran = [i \in 1..Len(Cmd.segments) |-> <<>>]
    /\ RowIdle
    /\ HookIdle

Logged(outcome) ==
    [attempt_logs EXCEPT ![seg] = Append(@, outcome)]

\* The running statement returned: the next statement, the next function,
\* or the end of the try block.
Advance ==
    /\ UNCHANGED err
    /\ IF step < Len(CurSeg.steps)
       THEN /\ step' = step + 1
            /\ UNCHANGED <<pc, seg, attempt, attempt_logs>>
       ELSE /\ attempt_logs' = Logged("ok")
            /\ IF seg < Len(Cmd.segments)
               THEN /\ seg' = seg + 1
                    /\ step' = 1
                    /\ attempt' = 1
                    /\ UNCHANGED pc
               ELSE /\ pc' = "release"
                    /\ UNCHANGED <<seg, step, attempt>>

\* The command catches what leaves the function and carries on.
raise_caught_by_command(e) ==
    LET after == AfterException(CurSeg.decorated, e, attempt) IN
    /\ attempt_logs' = Logged(e)
    /\ IF after = "retry"
       THEN /\ attempt' = attempt + 1
            /\ step' = 1
            /\ UNCHANGED <<pc, seg, err>>
       ELSE /\ pc' = (IF Cmd.scoped THEN "release" ELSE "exit")
            /\ UNCHANGED <<seg, step, attempt, err>>

\* The running statement raised e: the decorator calls the function again,
\* or an exception leaves the function and with it the try block.
Raise(e) ==
    LET after == AfterException(CurSeg.decorated, e, attempt) IN
    /\ attempt_logs' = Logged(e)
    /\ IF after = "retry"
       THEN /\ attempt' = attempt + 1
            /\ step' = 1
            /\ UNCHANGED <<pc, seg, err>>
       ELSE /\ err' = (IF after = "RetryError" THEN "RetryError" ELSE e)
            /\ pc' = (IF Cmd.scoped THEN "release" ELSE "exit")
            /\ UNCHANGED <<seg, step, attempt>>

Sent(query) ==
    IF query = <<>> THEN xpath_queries ELSE xpath_queries \cup {query}

\* click parses the command line: a missing required option is a usage
\* error, and the function of the command is not called.
Invoke ==
    /\ pc = "parse"
    /\ IF (required_options(cmd) \cup conditional_options(cmd)) \subseteq args
       THEN pc' = "start" /\ UNCHANGED err
       ELSE pc' = "exit" /\ err' = "UsageError"
    /\ UNCHANGED <<xvars, args, cmd, target_name, seg, step, attempt,
                   attempt_logs, wait_status, wait_trace, wait_step,
                   session, releases, xpath_queries, printed, pvars, cvars>>
    /\ UNCHANGED <<ran, rvars, hvars>>

\* driver = create_chrome_driver()
CreateDriver ==
    /\ pc = "start"
    /\ \/ /\ session' = "open"
          /\ pc' = "run"
          /\ UNCHANGED err
       \/ /\ err' = "WebDriverException"
          /\ pc' = "exit"
          /\ UNCHANGED session
    /\ UNCHANGED <<xvars, args, cmd, target_name, seg, step, attempt,
                   attempt_logs, wait_status, wait_trace, wait_step,
                   releases, xpath_queries, printed, pvars, cvars>>
    /\ UNCHANGED <<ran, rvars, hvars>>

\* The running statement was passed: the next one is up, or the function
\* returned.
Passed ==
    \/ attempt_logs' = attempt_logs /\ step' = step + 1
    \/ attempt_logs' = Logged("ok")

\* The statements the running attempt has passed, the running one included
\* when it was.
Track ==
    ran' = [ran EXCEPT ![seg] = (IF step = 1 THEN <<>> ELSE @)
                                  \o (IF Passed THEN <<CurStep.name>>
                                      ELSE <<>>)]

\* The calls that load a page.
PageLoads ==
    {"driver.get(log_in_url)", "driver.get(new_license_url)",
     "driver.get(licenses_url)", "driver.get(target_manager_url)"}

\* One driver or element call of a flow.  send_keys of an option that was
\* not given types None, which is a TypeError.  The wait before it, if any,
\* is over.
DriverCall ==
    /\ pc = "run"
    /\ CurStep.op = "call"
    /\ xpath_queries' = Sent(CurStep.query)
    /\ LET kept == IF step = 1 THEN NoSwallow ELSE swallowed
           clicks == IF CurStep.name \in SubmitClicks THEN 1 ELSE 0
       IN
       IF TypedOption(CurStep) \subseteq args
       THEN \/ /\ Advance
               /\ swallowed' = kept
               /\ submits' = submits + clicks
            \/ \E e \in CurStep.raises :
                 IF \E c \in CurStep.suppress : IsInstance(e, c)
                 THEN /\ Advance
                      /\ swallowed' = [fn |-> CurStep.fn,
                                       name |-> CurStep.name, e |-> e]
                      /\ UNCHANGED submits
                 ELSE /\ Raise(e)
                      /\ swallowed' = kept
                      /\ UNCHANGED submits
       ELSE /\ Raise("TypeError")
            /\ swallowed' = kept
            /\ UNCHANGED submits
    /\ UNCHANGED output
    /\ visited' = (IF step = 1 THEN 0 ELSE visited)
                    + (IF CurStep.name \in PageLoads THEN 1 ELSE 0)
    /\ row_seen' = (IF step = 1 THEN "unseen" ELSE row_seen)
    /\ record' = (IF step = 1 THEN NoRecord ELSE record)
    /\ dismissals' = (IF step = 1 THEN 0 ELSE dismissals)
                    + (IF CurStep.fn = "_dismiss_cookie_banner" THEN 1 ELSE 0)
    /\ wait_status' = "idle"
    /\ wait_trace' = <<>>
    /\ wait_step' = [fn |-> "none", name |-> "none"]
    /\ UNCHANGED <<xvars, args, cmd, target_name, session, releases,
                   printed, page_target, href, target_link, instance_id,
                   lookup_error, lookups, link_parts>>
    /\ Track
    /\ UNCHANGED <<rvars, hvars>>

\* Keeps polling after a truthy result until the deadline has passed.
until_polls_to_deadline(ignored, outcome, expired) ==
    IF outcome = "truthy"
    THEN IF expired THEN "returned" ELSE "polling"
    ELSE IF outcome # "falsy" /\ ~\E c \in ignored : IsInstance(outcome, c)
    THEN "raised"
    ELSE IF expired THEN "timeout" ELSE "polling"

\* Returns the falsy value when the deadline has passed.
until_returns_at_deadline(ignored, outcome, expired) ==
    IF outcome = "truthy" THEN "returned"
    ELSE IF outcome # "falsy" /\ ~\E c \in ignored : IsInstance(outcome, c)
    THEN "raised"
    ELSE IF expired THEN "returned" ELSE "polling"

\* One turn of the loop of WebDriverWait.until: the predicate is evaluated;
\* a truthy value is returned; an exception outside the ignored ones leaves
\* the wait; otherwise the deadline is looked at, and the wait raises
\* TimeoutException when it has passed and sleeps and polls again when not.
until(ignored, outcome, expired) ==
    IF outcome = "truthy" THEN "returned"
    ELSE IF outcome # "falsy" /\ ~\E c \in ignored : IsInstance(outcome, c)
    THEN "raised"
    ELSE IF expired THEN "timeout" ELSE "polling"

WaitPoll ==
    /\ pc = "run"
    /\ CurStep.op = "wait"
    /\ \E outcome \in EvalOutcomes(CurStep), expired \in BOOLEAN,
          obs \in (IF Observes(CurStep) = "none"
                   THEN {page_target} ELSE TargetStates),
          row \in (IF ScansListing(CurStep) THEN RowStates ELSE {row_seen}) :
        LET trace == (IF wait_status = "polling" THEN wait_trace ELSE <<>>)
                        \o <<outcome>>
            status == until(CurStep.ignored, outcome,
                            expired \/ Len(trace) >= MaxPolls)
        IN
        /\ Consistent(CurStep, obs, outcome)
        /\ page_target' = obs
        /\ ScanConsistent(CurStep, row, outcome)
        /\ row_seen' = row
        /\ wait_trace' = trace
        /\ wait_status' = status
        /\ wait_step' = [fn |-> CurStep.fn, name |-> CurStep.name]
        /\ CASE status = "returned" -> Advance
             [] status = "raised" -> Raise(outcome)
             [] status = "timeout" -> Raise("TimeoutException")
             [] status = "polling" ->
                    UNCHANGED <<pc, seg, step, attempt, attempt_logs, err>>
    /\ xpath_queries' = Sent(CurStep.query)
    /\ UNCHANGED <<xvars, args, cmd, target_name, session, releases, printed,
                   href, target_link, instance_id, lookup_error, lookups,
                   visited, dismissals, link_parts, cvars>>
    /\ Track
    /\ UNCHANGED <<rvars, hvars>>

\* _find_vumark_target_link is entered: find_elements(//a[...]) sees the
\* page.
FindLinkElements ==
    /\ pc = "run"
    /\ CurStep.op = "lookup"
    /\ lookups' = lookups + 1
    /\ xpath_queries' = Sent(CurStep.query)
    /\ page_target' \in TargetStates
    /\ \/ /\ WellFormed(CurStep)
          /\ Advance
          /\ UNCHANGED lookup_error
       \/ \E e \in (IF WellFormed(CurStep) THEN CurStep.raises
                    ELSE {"InvalidSelectorException"}) :
            /\ lookup_error' = e
            /\ Raise(e)
    /\ UNCHANGED <<xvars, args, cmd, target_name, wait_status, wait_trace,
                   wait_step, session, releases, printed, href,
                   target_link, instance_id, visited, dismissals,
                   link_parts, row_seen, cvars>>
    /\ Track
    /\ UNCHANGED <<rvars, hvars>>

\* target_link_elements[0]
FindLinkIndex ==
    /\ pc = "run"
    /\ CurStep.op = "index"
    /\ IF Matches("anchor", page_target)
       THEN Advance /\ UNCHANGED lookup_error
       ELSE lookup_error' = "IndexError" /\ Raise("IndexError")
    /\ UNCHANGED <<xvars, args, cmd, target_name, wait_status, wait_trace,
                   wait_step, session, releases, xpath_queries, printed,
                   page_target, href, target_link, instance_id, lookups,
                   visited, dismissals, link_parts, row_seen, cvars>>
    /\ Track
    /\ UNCHANGED <<rvars, hvars>>

\* get_attribute(name="href"), return str(object=target_link); then, back in
\* get_vumark_target_id, the ID is taken from the path of the link.
GetHref ==
    /\ pc = "run"
    /\ CurStep.op = "attr"
    /\ \/ \E h \in HrefSamples :
            /\ href' = h
            /\ target_link' = str(h)
            /\ instance_id' = TargetIdOf(str(h))
            /\ Advance
            /\ UNCHANGED lookup_error
       \/ \E e \in CurStep.raises :
            /\ lookup_error' = e
            /\ Raise(e)
            /\ UNCHANGED <<href, target_link, instance_id>>
    /\ UNCHANGED <<xvars, args, cmd, target_name, wait_status, wait_trace,
                   wait_step, session, releases, xpath_queries, printed,
                   page_target, lookups, visited, dismissals, link_parts,
                   row_seen, cvars>>
    /\ Track
    /\ UNCHANGED <<rvars, hvars>>

\* client_grey_boxes[i].text.strip() and server_grey_boxes[i].text.strip():
\* the boxes are read again after the wait, whatever the page shows by then.
ReadKeyText ==
    /\ pc = "run"
    /\ CurStep.op = "text"
    /\ \/ \E t \in CurStep.texts :
            /\ record' = [record EXCEPT ![CurStep.field] = strip(t)]
            /\ Advance
       \/ \E e \in CurStep.raises :
            /\ Raise(e)
            /\ UNCHANGED record
    /\ UNCHANGED <<xvars, args, cmd, target_name, wait_status, wait_trace,
                   wait_step, session, releases, xpath_queries, printed,
                   pvars, swallowed, submits, output>>
    /\ Track
    /\ UNCHANGED <<rvars, hvars>>

\* finally: driver.quit() -- or, in the first version, driver.close() as the
\* last statement of the command.
\* The result printed inside the finally clause, whatever the flow did.
release_and_echo_always ==
    /\ pc = "release"
    /\ session' = "released"
    /\ releases' = releases + 1
    /\ pc' = (IF Cmd.echo THEN "echo" ELSE "exit")
    /\ UNCHANGED <<xvars, args, cmd, target_name, seg, step, attempt,
                   attempt_logs, wait_status, wait_trace, wait_step, err,
                   xpath_queries, printed, pvars, cvars>>
    /\ UNCHANGED <<ran, rvars, hvars>>

Release ==
    /\ pc = "release"
    /\ session' = "released"
    /\ releases' = releases + 1
    /\ pc' = (IF err = "none" /\ Cmd.echo THEN "echo" ELSE "exit")
    /\ UNCHANGED <<xvars, args, cmd, target_name, seg, step, attempt,
                   attempt_logs, wait_status, wait_trace, wait_step, err,
                   xpath_queries, printed, pvars, cvars>>
    /\ UNCHANGED <<ran, rvars, hvars>>

\* The show commands with --env-var-format given.
env_var_format == "--env-var-format" \in args

\* click.echo(...): the instance ID, or the details as KEY=VALUE lines or as
\* a YAML document.
Echo ==
    /\ pc = "echo"
    /\ printed' = TRUE
    /\ output' =
          (IF cmd \in {"get_vumark_instance_id",
                       "wait_for_vumark_instance_id"}
           THEN <<instance_id>>
           ELSE LET details == ReturnedDict(Cmd.segments[2].fn) IN
                IF env_var_format
                THEN env_lines(env_var_format_details(details))
                ELSE yaml_dump(details))
    /\ pc' = "exit"
    /\ UNCHANGED <<xvars, args, cmd, target_name, seg, step, attempt,
                   attempt_logs, wait_status, wait_trace, wait_step, err,
                   session, releases, xpath_queries, pvars, record,
                   swallowed, submits>>
    /\ UNCHANGED <<ran, rvars, hvars>>

\* The exit code of the process once the command has ended (-1 before):
\* 0 after a return, 2 after a usage error of click, 1 after any other
\* exception.
exit_code ==
    IF pc # "exit" THEN -1
    ELSE IF err = "none" THEN 0
    ELSE IF err = "UsageError" THEN 2
    ELSE 1

Next ==
    \/ Invoke
    \/ CreateDriver
    \/ DriverCall
    \/ WaitPoll
    \/ FindLinkElements
    \/ FindLinkIndex
    \/ GetHref
    \/ ReadKeyText
    \/ Release
    \/ Echo

Spec == Init /\ [][Next]_vars

\* The names termination is followed for: one whose XPath literal is well
\* formed, one whose literal is not, and the empty one.
LiveNames == {<<>>, <<"a">>, <<SQ>>}

LiveInit == Init /\ (cmd \in NamedCommands => target_name \in LiveNames)

\* The process is one thread that always goes on to its next statement.
LiveSpec == LiveInit /\ [][Next]_vars /\ WF_vars(Next)

(***************************************************************************)
(* TargetIdSpec: the ID taken from every bounded link                       *)
(***************************************************************************)
\* Longest path of a link.
MaxPathLen == 3

PathChars == {"/", "x", "y"}

RECURSIVE PathsOfLen(_)
PathsOfLen(n) ==
    IF n = 0 THEN {<<>>}
    ELSE {Append(s, c) : s \in PathsOfLen(n - 1), c \in PathChars}

\* The path of a link is empty or starts with a slash.
Paths ==
    {<<>>} \cup
    {<<"/">> \o r : r \in UNION {PathsOfLen(n) : n \in 0..MaxPathLen}}
Queries == {<<>>, <<"?", "q">>, <<"?", "q", "/", "x">>}
Fragments == {<<>>, <<"#", "f">>, <<"#", "/", "x">>}

LinkOf(parts) == <<Origin>> \o parts.path \o parts.query \o parts.fragment

TInit ==
    /\ value = <<>>
    /\ result = <<>>
    /\ xpc = "returned"
    /\ FlowIdle
    /\ link_parts \in [path : Paths, query : Queries, fragment : Fragments]
    /\ page_target = "link"
    /\ href = LinkOf(link_parts)
    /\ target_link = str(href)
    /\ instance_id = Unset
    /\ lookup_error = "none"
    /\ lookups = 1
    /\ visited = 0
    /\ dismissals = 0
    /\ row_seen = "here"
    /\ record = NoRecord
    /\ swallowed = NoSwallow
    /\ submits = 0
    /\ output = <<>>
    /\ ran = <<>>
    /\ RowIdle
    /\ HookIdle

\* The last two lines of get_vumark_target_id.
ExtractTargetId ==
    /\ cmd = "none"
    /\ target_link # Unset
    /\ instance_id = Unset
    /\ instance_id' = TargetIdOf(target_link)
    /\ UNCHANGED <<xvars, fvars, page_target, href, target_link,
                   lookup_error, lookups, visited, dismissals, link_parts,
                   row_seen, cvars>>
    /\ UNCHANGED <<ran, rvars, hvars>>

TNext == ExtractTargetId

TargetIdSpec == TInit /\ [][TNext]_vars

(***************************************************************************)
(* The row predicates _click_license_row and _click_database_row            *)
(***************************************************************************)
\* The characters of a row's text: two plain ones and whitespace.
RowChars == {"a", "b", " "}

\* Longest row text and most rows the model draws.
TextLen == 2
MaxRows == 2

RECURSIVE TextsOfLen(_)
TextsOfLen(n) ==
    IF n = 0 THEN {<<>>}
    ELSE {Append(s, c) : s \in TextsOfLen(n - 1), c \in RowChars}

RowTexts == UNION {TextsOfLen(n) : n \in 0..TextLen}

RECURSIVE RowsOfLen(_)
RowsOfLen(n) ==
    IF n = 0 THEN {<<>>}
    ELSE {Append(r, t) : r \in RowsOfLen(n - 1), t \in RowTexts}

\* What find_elements can return: the rows the search filter shows, in
\* document order.
RowLists == UNION {RowsOfLen(n) : n \in 0..MaxRows}

\* str.strip(): s without its leading and trailing whitespace.
RECURSIVE str_strip(_)
str_strip(s) ==
    IF s = <<>> THEN <<>>
    ELSE IF Head(s) = " " THEN str_strip(Tail(s))
    ELSE IF s[Len(s)] = " " THEN str_strip(SubSeq(s, 1, Len(s) - 1))
    ELSE s

\* A row picked because its text has the name somewhere in it.
row_contains(text, name) == HasFragment(text, name)

\* row.text.strip() == license_name
row_matches(text, name) == str_strip(text) = name

\* rows = driver.find_elements(...), before the first turn of the loop.
RInit ==
    /\ value = <<>>
    /\ result = <<>>
    /\ xpc = "returned"
    /\ FlowIdle
    /\ PageIdle
    /\ link_parts = NoParts
    /\ record = NoRecord
    /\ swallowed = NoSwallow
    /\ submits = 0
    /\ output = <<>>
    /\ ran = <<>>
    /\ rows \in RowLists
    /\ row_name \in RowTexts \ {<<>>}
    /\ row_i = 1
    /\ row_clicks = <<>>
    /\ returned = "running"
    /\ HookIdle

\* A turn of the loop whose row does not match: on to the next row.
SkipRow ==
    /\ returned = "running"
    /\ row_i <= Len(rows)
    /\ ~row_matches(rows[row_i], row_name)
    /\ row_i' = row_i + 1
    /\ UNCHANGED <<rows, row_name, row_clicks, returned>>
    /\ UNCHANGED <<xvars, fvars, pvars, cvars, ran, hvars>>

\* A turn of the loop whose row matches: row.click(); return True.
ClickRow ==
    /\ returned = "running"
    /\ row_i <= Len(rows)
    /\ row_matches(rows[row_i], row_name)
    /\ row_clicks' = Append(row_clicks, row_i)
    /\ returned' = "True"
    /\ UNCHANGED <<rows, row_name, row_i>>
    /\ UNCHANGED <<xvars, fvars, pvars, cvars, ran, hvars>>

\* A turn of the loop whose row matches, and row.click() raises: the
\* exception leaves the predicate.
ClickRaises ==
    /\ returned = "running"
    /\ row_i <= Len(rows)
    /\ row_matches(rows[row_i], row_name)
    /\ returned' = "WebDriverException"
    /\ UNCHANGED <<rows, row_name, row_i, row_clicks>>
    /\ UNCHANGED <<xvars, fvars, pvars, cvars, ran, hvars>>

\* The loop is through: return False.
ReturnFalse ==
    /\ returned = "running"
    /\ row_i > Len(rows)
    /\ returned' = "False"
    /\ UNCHANGED <<rows, row_name, row_i, row_clicks>>
    /\ UNCHANGED <<xvars, fvars, pvars, cvars, ran, hvars>>

RNext == SkipRow \/ ClickRow \/ ClickRaises \/ ReturnFalse

RowSpec == RInit /\ [][RNext]_vars

(***************************************************************************)
(* The function hook of my_mypy_plugin                                      *)
(***************************************************************************)
\* The kinds mypy gives the arguments of a call: f(x), f(*x), f(a=x),
\* f(**x).
ARG_POS == "ARG_POS"
ARG_STAR == "ARG_STAR"
ARG_NAMED == "ARG_NAMED"
ARG_STAR2 == "ARG_STAR2"
ArgKinds == {ARG_POS, ARG_STAR, ARG_NAMED, ARG_STAR2}

\* Most arguments of a call site the model draws.
MaxArgs == 3

RECURSIVE KindsOfLen(_)
KindsOfLen(n) ==
    IF n = 0 THEN {<<>>}
    ELSE {Append(k, a) : k \in KindsOfLen(n - 1), a \in ArgKinds}

ArgKindLists == UNION {KindsOfLen(n) : n \in 0..MaxArgs}

\* mypy calls the hook get_function_hook returned with the context of a
\* call: a CallExpr with its arguments, or another node.
HInit ==
    /\ value = <<>>
    /\ result = <<>>
    /\ xpc = "returned"
    /\ FlowIdle
    /\ PageIdle
    /\ link_parts = NoParts
    /\ record = NoRecord
    /\ swallowed = NoSwallow
    /\ submits = 0
    /\ output = <<>>
    /\ ran = <<>>
    /\ RowIdle
    /\ is_call_expr \in BOOLEAN
    /\ arg_kinds \in (IF is_call_expr THEN ArgKindLists ELSE {<<>>})
    /\ failures = 0
    /\ hook = "called"

\* named_argument_checker(ctx): its first statement is "raise Exception";
\* the loop over the argument kinds below it is never reached.
named_argument_checker ==
    /\ hook = "called"
    /\ hook' = "Exception"
    /\ UNCHANGED <<is_call_expr, arg_kinds, failures>>
    /\ UNCHANGED <<xvars, fvars, pvars, cvars, ran, rvars>>

HNext == named_argument_checker

PluginSpec == HInit /\ [][HNext]_vars

(***************************************************************************)
(* Claims about _xpath_literal (checked under XPathSpec)                    *)
(***************************************************************************)
Returned == xpc = "returned"

\* C1: for every input that contains no double-quote character,
\* _xpath_literal returns the input wrapped in double quotes, text unchanged
\* (a'b gives "a'b").
C1_NoDoubleQuoteWrapsInDoubleQuotes ==
    (Returned /\ ~Contains(value, DQ)) => result = <<DQ>> \o value \o <<DQ>>

\* C2: for every input that contains at least one double-quote character and
\* no single-quote character, _xpath_literal returns the input wrapped in
\* single quotes, text unchanged.
C2_DoubleQuoteOnlyWrapsInSingleQuotes ==
    (Returned /\ Contains(value, DQ) /\ ~Contains(value, SQ))
        => result = <<SQ>> \o value \o <<SQ>>

C2_Witness ==
    /\ Returned
    /\ value = <<"a", DQ, "b">>
    /\ result = <<SQ, "a", DQ, "b", SQ>>

\* C3: for every input that contains both a single quote and a double quote,
\* _xpath_literal returns the concat(...) expression of the input's segments
\* between single quotes, and the values of its arguments join to the input.
C3_BothQuotesGiveConcat ==
    (Returned /\ Contains(value, SQ) /\ Contains(value, DQ))
        => /\ result = ConcatForm(value)
           /\ XPathEval(result) = [ok |-> TRUE, val |-> value]

\* C4: for every input, the empty string included, the output of
\* _xpath_literal is a syntactically valid XPath string expression: no
\* quoted segment of it contains its own delimiter, so the literal cannot be
\* terminated early by a character of the input.
C4_OutputIsValidXPath ==
    Returned => XPathEval(result).ok

(***************************************************************************)
(* Claims about the flows (checked under Spec)                              *)
(***************************************************************************)
Last(s) == s[Len(s)]

WaitEnded == wait_status \in {"returned", "raised", "timeout"}

\* C5: when wait_for_vumark_target_link or get_vumark_target_id runs with a
\* target name that contains a single quote, at least one XPath query sent
\* to the driver contains normalize-space(.) = "<target name>", the name
\* unchanged inside double quotes.
C5_SingleQuoteNameSentInDoubleQuotes ==
    (/\ cmd \in {"get_vumark_instance_id", "wait_for_vumark_instance_id"}
     /\ Contains(target_name, SQ)
     /\ \E q \in xpath_queries : HasFragment(q, <<"normalize-space(.) = ">>))
        => \E q \in xpath_queries :
              HasFragment(q, <<"normalize-space(.) = ", DQ>>
                                \o target_name \o <<DQ>>)

\* C6: a wait returns as soon as one evaluation of its predicate is truthy:
\* a truthy evaluation is always the last one of its wait (so a first
\* truthy evaluation is the only one), the wait has then returned whether
\* or not its deadline has passed, and a wait only returns on a truthy
\* evaluation.
C6_WaitReturnsAtFirstTruthy ==
    /\ \A i \in 1..(Len(wait_trace) - 1) : wait_trace[i] # "truthy"
    /\ (wait_trace # <<>> /\ Last(wait_trace) = "truthy")
          => wait_status = "returned"
    /\ wait_status = "returned" => Last(wait_trace) = "truthy"

C6_Witness ==
    /\ wait_step.fn = "wait_for_logged_in"
    /\ wait_trace = <<"truthy">>
    /\ wait_status = "returned"
    /\ Len(wait_trace) < MaxPolls

\* C7: a wait whose predicate was never truthy before the deadline ends
\* with TimeoutException: a wait that ended without a truthy evaluation and
\* without an exception of the predicate leaving it has timed out, the
\* function it runs in then sees TimeoutException, no wait returns after a
\* falsy last evaluation, and no wait polls beyond its deadline.
C7_EndedWithoutTruthy ==
    /\ WaitEnded
    /\ \A i \in 1..Len(wait_trace) :
          wait_trace[i] \in {"falsy", "NoSuchElementException",
                             "StaleElementReferenceException"}

C7_Invariant ==
    /\ (C7_EndedWithoutTruthy /\ wait_status # "raised")
          => wait_status = "timeout"
    /\ wait_status = "returned" => Last(wait_trace) = "truthy"
    /\ Len(wait_trace) <= MaxPolls

C7_Step ==
    (/\ pc = "run"
     /\ CurStep.op = "wait"
     /\ wait_status' = "timeout"
     /\ attempt_logs' # attempt_logs)
        => Last(attempt_logs'[seg]) = "TimeoutException"

C7_NeverTruthyEndsInTimeout == [](C7_Invariant) /\ [][C7_Step]_vars

C7_Witness ==
    /\ wait_step = [fn |-> "navigate_to_database",
                    name |-> "_click_database_row"]
    /\ wait_trace = <<"falsy", "falsy">>
    /\ wait_status = "timeout"
    /\ Last(attempt_logs[seg]) = "TimeoutException"

\* C8: in a wait that ignores NoSuchElementException and
\* StaleElementReferenceException, such an exception of the predicate does
\* not end the wait (it polls again unless the deadline has passed), and an
\* exception of any other type ends the wait at once and reaches the caller
\* of the flow: it is the last evaluation and the error of the command.
WaitIgnoresBoth ==
    wait_step.fn \notin {"none", "_log_in_once", "create_license",
                         "legacy_log_in", "legacy_create_license"}

C8_IgnoredPollOthersPropagate ==
    WaitIgnoresBoth =>
        \A i \in 1..Len(wait_trace) :
            /\ wait_trace[i] \in {"NoSuchElementException",
                                  "StaleElementReferenceException"}
                  => (i < Len(wait_trace)
                      \/ wait_status \in {"polling", "timeout"})
            /\ wait_trace[i] \notin {"truthy", "falsy",
                                     "NoSuchElementException",
                                     "StaleElementReferenceException"}
                  => /\ i = Len(wait_trace)
                     /\ wait_status = "raised"
                     /\ err = wait_trace[i]
                     /\ pc # "run"

C8_Witness ==
    /\ wait_step = [fn |-> "wait_for_vumark_target_link",
                    name |-> "_click_target_key_tab"]
    /\ wait_trace = <<"StaleElementReferenceException",
                      "WebDriverException">>
    /\ wait_status = "raised"
    /\ err = "WebDriverException"

\* C9: for every command, once the browser session has been created it is
\* released exactly once on every exit path of the command.
C9_SessionReleasedExactlyOnce ==
    (pc = "exit" /\ session # "none")
        => (session = "released" /\ releases = 1)

\* C10: log_in runs again only after an attempt that ended with
\* TimeoutException and at most three times in all; an attempt that ends
\* with another error is the last one, and that error is the error of the
\* command (after exactly one attempt when it is the first).
C10_LogInRetriedOnlyOnTimeout ==
    (cmd # "none" /\ Cmd.segments[1].fn = "log_in") =>
        LET log == attempt_logs[1] IN
        /\ Len(log) <= 3
        /\ \A i \in 1..(Len(log) - 1) : log[i] = "TimeoutException"
        /\ \A i \in 1..Len(log) :
              log[i] \notin {"ok", "TimeoutException"}
                 => /\ i = Len(log)
                    /\ err = log[i]
                    /\ seg = 1
                    /\ pc # "run"

C10_Witness ==
    /\ Cmd.segments[1].fn = "log_in"
    /\ attempt_logs[1] = <<"TimeoutException", "NoSuchElementException">>
    /\ err = "NoSuchElementException"

\* C11 (as stated): when a login attempt times out the login flow is
\* retried once: one call of log_in makes at most two attempts.
C11_AtMostTwoAttempts ==
    (cmd # "none" /\ Cmd.segments[1].fn = "log_in")
        => Len(attempt_logs[1]) <= 2

TimedOut == "TimeoutException"

\* C11 (amended): when a login attempt times out the login flow is retried,
\* up to twice: one call of log_in makes at most three attempts; a timed-out
\* first or second attempt is followed by another attempt, and after a third
\* timeout the failure reaches the caller (as RetryError).
C11_AtMostThreeAttempts ==
    (cmd # "none" /\ Cmd.segments[1].fn = "log_in") =>
        LET log == attempt_logs[1] IN
        /\ Len(log) <= 3
        /\ (seg = 1 /\ pc = "run") => (attempt = Len(log) + 1 /\ attempt <= 3)
        /\ (log # <<>> /\ Len(log) < 3 /\ Last(log) = TimedOut)
              => (seg = 1 /\ pc = "run")
        /\ log = <<TimedOut, TimedOut, TimedOut>>
              => (err = "RetryError" /\ pc # "run")

C11_Witness ==
    /\ Cmd.segments[1].fn = "log_in"
    /\ attempt_logs[1] = <<TimedOut, TimedOut, TimedOut>>
    /\ err = "RetryError"

(***************************************************************************)
(* Claims about the target lookups (checked under Spec)                     *)
(***************************************************************************)
\* The lookup was left by an exception that is not one of the driver's.
LookupFailed ==
    /\ lookup_error # "none"
    /\ ~IsInstance(lookup_error, "WebDriverException")

\* C12: _find_vumark_target_link reports a cell with the target name that
\* is no anchor as the "target name is not a link" error, and a page without
\* such a cell as the "target link not found" error.
C12_LookupErrorsAreNamed ==
    LookupFailed =>
        /\ page_target = "text"
              => lookup_error = "_VuMarkTargetNameNotLinkError"
        /\ page_target = "absent"
              => lookup_error = "_VuMarkTargetLinkNotFoundError"

\* C13: when get_attribute gives None for the href of the matching anchor,
\* _find_vumark_target_link raises the "target name is not a link" error
\* and returns no string.
C13_MissingHrefIsNotALink ==
    href = PyNone =>
        /\ lookup_error = "_VuMarkTargetNameNotLinkError"
        /\ target_link = Unset

\* C14: when the link lookup inside get_vumark_target_id fails because the
\* target is no link or is not on the page, get_vumark_target_id raises
\* _VuMarkTargetIdLookupError and returns no ID.
C14_LookupFailureIsWrapped ==
    (LookupFailed /\ page_target \in {"text", "absent"}) =>
        /\ err = "_VuMarkTargetIdLookupError"
        /\ instance_id = Unset

\* C15: get_vumark_target_id returns no empty ID: for a link that is empty,
\* or whose path holds no segment, it raises _VuMarkTargetIdLookupError
\* and returns nothing.
C15_NoEmptyTargetId ==
    /\ instance_id # <<>>
    /\ (target_link # Unset /\ TargetIdOf(target_link) = <<>>)
          => (err = "_VuMarkTargetIdLookupError" /\ instance_id = Unset)

RowWait == [fn |-> "get_vumark_target_id", name |-> "presence(target row)"]

\* C16: when the wait for the target row in get_vumark_target_id ends with
\* a timeout, get_vumark_target_id raises _VuMarkTargetIdLookupError, not
\* the timeout, and the link is not looked up.
C16_RowTimeoutIsWrapped ==
    (wait_step = RowWait /\ wait_status = "timeout") =>
        /\ err = "_VuMarkTargetIdLookupError"
        /\ lookups = 0

LinkWait ==
    [fn |-> "wait_for_vumark_target_link", name |-> "_target_link_found"]

\* C17: every poll of the wait in wait_for_vumark_target_link is one call
\* of _find_vumark_target_link: in the first attempt of the function, after
\* k polls without a link there have been k lookups, and the wait returns
\* at the poll whose lookup gives a link, after k + 1 lookups.
C17_EveryPollIsOneLookup ==
    (/\ wait_step = LinkWait
     /\ wait_status \in {"polling", "returned"}
     /\ Len(attempt_logs[2]) = (IF wait_status = "returned" THEN 1 ELSE 0))
        => lookups = Len(wait_trace)

\* C18: wait_for_vumark_target_link returns only in a poll that sees the
\* target as a link, and a poll that sees the target as a link returns,
\* unless the driver itself has failed.
C18_ReturnsExactlyOnLink ==
    wait_step = LinkWait =>
        /\ wait_status = "returned" => page_target = "link"
        /\ page_target = "link"
              => \/ wait_status = "returned"
                 \/ /\ wait_status = "raised"
                    /\ Last(wait_trace) = "WebDriverException"

\* C20: when the database row is on no page of the listing,
\* navigate_to_database loads the listing again and dismisses the cookie
\* banner again before the deadline of the row wait ends the flow: when the
\* row wait has polled once and timed out, the listing has been loaded twice
\* and the banner dismissed twice.
C20_ListingReloadedBeforeTimeout ==
    (/\ wait_step = [fn |-> "navigate_to_database",
                     name |-> "_click_database_row"]
     /\ wait_status = "timeout"
     /\ wait_trace = <<"falsy">>
     /\ (pc # "run" \/ step = 1))
        => (visited = 2 /\ dismissals = 2)

(***************************************************************************)
(* Claims about the ID of a link (checked under TargetIdSpec)               *)
(***************************************************************************)
RECURSIVE NonEmpty(_)
NonEmpty(segs) ==
    IF segs = <<>> THEN <<>>
    ELSE (IF Head(segs) = <<>> THEN <<>> ELSE <<Head(segs)>>)
            \o NonEmpty(Tail(segs))

\* C19: for a link to the target, get_vumark_target_id returns the last
\* non-empty segment of the path the link was built from, whatever the
\* trailing slashes, the query string and the fragment of the link.
C19_IdIsLastPathSegment ==
    instance_id # Unset =>
        LET segs == NonEmpty(Split(link_parts.path, "/")) IN
        segs # <<>> => instance_id = Last(segs)

C19_Witness ==
    /\ link_parts = [path |-> <<"/", "x", "/", "/">>,
                     query |-> <<"?", "q", "/", "x">>,
                     fragment |-> <<"#", "/", "x">>]
    /\ instance_id = <<"x">>

(***************************************************************************)
(* Claims about the listing, the records and the commands (under Spec)      *)
(***************************************************************************)
DbRowWait == [fn |-> "navigate_to_database", name |-> "_click_database_row"]

\* C21: when the row with the name is not on the page of the listing that
\* is shown and there is a further page, the lookup goes to the next page
\* and scans again, so the wait for the row does not reach its deadline
\* while the row is on a further page.
C21_RowOnFurtherPageIsFound ==
    (/\ wait_step = DbRowWait
     /\ wait_status = "timeout"
     /\ (pc # "run" \/ step = 1))
        => row_seen # "further"

\* The details function of a show command has returned its dict.
DetailsReturned ==
    /\ cmd \in {"show_database_details", "show_vumark_database_details"}
    /\ attempt_logs[2] # <<>>
    /\ Last(attempt_logs[2]) = "ok"

\* C22: the dict returned by get_database_details or
\* get_vumark_database_details has database_name equal to the requested
\* name and no empty key, whatever the page shows when the boxes are read
\* again after the wait.
C22_ReturnedKeysAreNonEmpty ==
    DetailsReturned =>
        LET details == ReturnedDict(Cmd.segments[2].fn) IN
        /\ details["database_name"] = database_name
        /\ \A f \in DOMAIN details : details[f] # ""

\* The command line leaves out an option of the command.
InvalidInput ==
    /\ cmd # "none"
    /\ ~((options(cmd) \cup conditional_options(cmd)) \subseteq args)

NoBrowserInteraction ==
    /\ session = "none"
    /\ releases = 0
    /\ seg = 1
    /\ step = 1
    /\ \A i \in DOMAIN attempt_logs : attempt_logs[i] = <<>>

\* C24: a command line that leaves out an option of the command (a cloud
\* database without --license-name) is rejected with a usage error before
\* any browser interaction: no session is created, no log-in attempted.
C24_InvalidInputRejectedBeforeBrowser ==
    InvalidInput =>
        /\ NoBrowserInteraction
        /\ pc \in {"parse", "exit"}
        /\ pc = "exit" => err = "UsageError"

FlowSucceeded ==
    \A i \in DOMAIN attempt_logs :
        attempt_logs[i] # <<>> /\ Last(attempt_logs[i]) = "ok"

FlowFailed ==
    \E i \in DOMAIN attempt_logs :
        attempt_logs[i] # <<>> /\ Last(attempt_logs[i]) # "ok"

\* C25: a command whose log_in and flow returned exits with code 0, a
\* command whose log_in or flow ended with an exception exits with a code
\* other than 0.
C25_ExitCodeTellsSuccess ==
    (cmd # "none" /\ pc = "exit") =>
        /\ FlowSucceeded => exit_code = 0
        /\ FlowFailed => exit_code \notin {-1, 0}

C25_Witness ==
    /\ cmd = "delete_vws_license"
    /\ pc = "exit"
    /\ Len(attempt_logs[1]) = 1
    /\ FlowFailed
    /\ exit_code = 1

\* Every exception that ended an attempt of a function reached the caller
\* of the function, but for a timeout the retry decorator answers with the
\* next attempt.
ReachesCaller ==
    \A i \in DOMAIN attempt_logs :
        \A k \in 1..Len(attempt_logs[i]) :
            LET e == attempt_logs[i][k]
                last == k = Len(attempt_logs[i])
                ended == seg = i /\ pc # "run"
            IN
            /\ e \notin {"ok", TimedOut} => (last /\ ended /\ err = e)
            /\ e = TimedOut =>
                  \/ ~last
                  \/ seg = i /\ pc = "run" /\ attempt = k + 1
                  \/ ended /\ err \in {TimedOut, "RetryError"}

\* C26 (as stated): no flow swallows an exception of a driver call: outside
\* the predicates of the waits, every exception reaches the caller.
C26_NoErrorSwallowed ==
    /\ swallowed = NoSwallow
    /\ ReachesCaller

\* C26 (amended): the only exception of a driver call that a flow swallows
\* outside the predicates of the waits is a WebDriverException of the
\* repeated click on the add-database button in _open_add_database_dialog;
\* every other one reaches the caller.
C26_OnlyRepeatedClickSwallowed ==
    /\ swallowed # NoSwallow =>
          /\ swallowed.fn = "_open_add_database_dialog"
          /\ swallowed.name = "add_database_button.click again"
          /\ IsInstance(swallowed.e, "WebDriverException")
    /\ ReachesCaller

C26_Witness ==
    /\ cmd = "create_vws_vumark_database"
    /\ swallowed.e = "StaleElementReferenceException"
    /\ seg = 2
    /\ pc = "run"
    /\ err = "none"

ShowCommands == {"show_database_details", "show_vumark_database_details"}

\* The number of lines of the output that start with the given words.
LinesWith(start) ==
    Cardinality({i \in 1..Len(output) :
                    SubSeq(output[i], 1, Len(start)) = start})

\* C27: show-database-details and show-vumark-database-details print the
\* record they scraped: with --env-var-format one KEY=VALUE line per field
\* (VUFORIA_TARGET_MANAGER_DATABASE_NAME, VUFORIA_SERVER_ACCESS_KEY,
\* VUFORIA_SERVER_SECRET_KEY and, for a cloud database,
\* VUFORIA_CLIENT_ACCESS_KEY and VUFORIA_CLIENT_SECRET_KEY) with the value
\* of the field, without it a YAML document with one line per key of the
\* record.
C27_OutputShowsTheRecord ==
    (cmd \in ShowCommands /\ printed) =>
        LET cloud == cmd = "show_database_details"
            always == <<<<"VUFORIA_TARGET_MANAGER_DATABASE_NAME">>,
                        <<"VUFORIA_SERVER_ACCESS_KEY">>,
                        <<"VUFORIA_SERVER_SECRET_KEY">>>>
        IN
        /\ Len(output) = (IF cloud THEN 5 ELSE 3)
        /\ env_var_format =>
              /\ LinesWith(<<"VUFORIA_TARGET_MANAGER_DATABASE_NAME", "=",
                             database_name>>) = 1
              /\ LinesWith(<<"VUFORIA_SERVER_ACCESS_KEY", "=",
                             record["server_access_key"]>>) = 1
              /\ LinesWith(<<"VUFORIA_SERVER_SECRET_KEY", "=",
                             record["server_secret_key"]>>) = 1
              /\ cloud =>
                    /\ LinesWith(<<"VUFORIA_CLIENT_ACCESS_KEY", "=",
                                   record["client_access_key"]>>) = 1
                    /\ LinesWith(<<"VUFORIA_CLIENT_SECRET_KEY", "=",
                                   record["client_secret_key"]>>) = 1
              /\ \A i \in 1..Len(always) : LinesWith(always[i]) = 1
        /\ ~env_var_format =>
              /\ LinesWith(<<"database_name", ": ", database_name>>) = 1
              /\ LinesWith(<<"server_access_key", ": ">>) = 1
              /\ LinesWith(<<"server_secret_key", ": ">>) = 1
              /\ LinesWith(<<"client_access_key", ": ">>)
                    = (IF cloud THEN 1 ELSE 0)
              /\ LinesWith(<<"client_secret_key", ": ">>)
                    = (IF cloud THEN 1 ELSE 0)
              /\ \A i \in 1..Len(output) : LinesWith(<<output[i][1], "=">>) = 0

C27_Witness ==
    /\ cmd = "show_database_details"
    /\ env_var_format
    /\ printed
    /\ record["server_access_key"] = "key"
    /\ record["server_secret_key"] = ""
    /\ output[2] = <<"VUFORIA_SERVER_ACCESS_KEY", "=", "key">>

\* log_in has returned: its last attempt ended without an exception.
LoggedIn == attempt_logs[1] # <<>> /\ Last(attempt_logs[1]) = "ok"

\* A statement of the flow after log_in is running or has run.
FlowEntered ==
    \/ seg > 1
    \/ \E i \in DOMAIN attempt_logs : i > 1 /\ attempt_logs[i] # <<>>

\* C29: an invocation uses one browser session, in the order create
\* session, log in, run the flow, release the session: nothing runs without
\* the session, no flow step runs before log_in has returned, none runs
\* after the release, and a command that created a session exits with it
\* released exactly once.
C29_OneSessionInOrder ==
    /\ releases <= 1
    /\ session = "none" =>
          /\ releases = 0
          /\ pc \in {"parse", "start", "exit"}
          /\ \A i \in DOMAIN attempt_logs : attempt_logs[i] = <<>>
    /\ pc = "run" => session = "open" /\ releases = 0
    /\ FlowEntered => LoggedIn
    /\ session = "released" => releases = 1 /\ pc \in {"echo", "exit"}
    /\ (pc = "exit" /\ session # "none") =>
          session = "released" /\ releases = 1

\* The commands that call create_license, create_cloud_database or
\* create_vumark_database, once each.
CreateCommands ==
    {"create_vws_license", "create_vws_cloud_database",
     "create_vws_vumark_database", "create_vws_database",
     "legacy_create_vws_license"}

\* C30: a call of create_license, create_cloud_database or
\* create_vumark_database clicks the submit button of its form at most
\* once, and exactly once when it returns.
C30_SubmitClickedOncePerCall ==
    cmd \in CreateCommands =>
        /\ submits <= 1
        /\ (Last(attempt_logs) # <<>> /\ Last(Last(attempt_logs)) = "ok")
              => submits = 1

C30_Witness ==
    /\ cmd = "create_vws_cloud_database"
    /\ pc = "exit"
    /\ err = "none"
    /\ Len(attempt_logs[2]) = 2
    /\ submits = 1

\* The number of calls the command has made of function fn: log_in and the
\* functions outside the retry decorator are called once, when their first
\* statement is reached.
Calls(fn) ==
    Cardinality({i \in DOMAIN attempt_logs :
                    /\ Cmd.segments[i].fn = fn
                    /\ \/ attempt_logs[i] # <<>>
                       \/ seg = i /\ pc = "run" /\ step > 1})

\* The function that creates a database of the other type.
OtherType(fn) ==
    IF fn = "create_cloud_database"
    THEN "create_vumark_database" ELSE "create_cloud_database"

LicenseDetailsReturned ==
    /\ cmd = "show_license_details"
    /\ attempt_logs[2] # <<>>
    /\ Last(attempt_logs[2]) = "ok"

\* A key as it is returned or printed: read, and not the empty string.
IsKey(v) == v \notin {Unread, "", yaml_scalar("")}

Ended == pc = "exit"

\* C31: every flow ends, in success or in an error, after a bounded number
\* of attempts (three) and of evaluations of each wait's predicate (as many
\* as fit before its deadline), whatever the page does.
C31_EveryFlowTerminates ==
    /\ <>Ended
    /\ [](attempt \in 1..3 /\ Len(wait_trace) <= MaxPolls)
    /\ [](\A i \in DOMAIN attempt_logs : Len(attempt_logs[i]) <= 3)

C31_Witness ==
    /\ Ended
    /\ cmd = "show_database_details"
    /\ Len(attempt_logs[1]) = 3
    /\ Len(attempt_logs[2]) = 3
    /\ err = "RetryError"
    /\ Len(wait_trace) = MaxPolls

UploadWait ==
    [fn |-> "upload_vumark_template", name |-> "presence(target name cell)"]

\* The last wait of upload_vumark_template ended without returning and
\* without a failure of the driver.
UploadCellNotSeen ==
    /\ wait_step = UploadWait
    /\ wait_status \in {"raised", "timeout"}
    /\ Last(wait_trace) # "WebDriverException"

\* C32: upload_vumark_template returns only on an evaluation that finds a
\* cell with the template name in the targets table (a link or inert text);
\* when no evaluation finds one before the deadline it ends with
\* TimeoutException.
C32_UploadReturnsOnCell ==
    /\ (cmd = "upload_vumark_template_to_database"
            /\ attempt_logs[2] # <<>> /\ Last(attempt_logs[2]) = "ok") =>
          /\ wait_step = UploadWait
          /\ wait_status = "returned"
          /\ page_target \in {"text", "link"}
    /\ UploadCellNotSeen =>
          /\ wait_status = "timeout"
          /\ page_target = "absent"
          /\ err = "TimeoutException"
          /\ Last(attempt_logs[2]) = "TimeoutException"

\* The places of statement `name` among the statements r.
Places(r, name) == {i \in 1..Len(r) : r[i] = name}

\* Every `later` in r has every statement of `earlier` before it.
After(r, later, earlier) ==
    \A i \in Places(r, later) :
        \A name \in earlier : \E j \in Places(r, name) : j < i

Dismiss == "driver.execute_script"

\* C33: in log_in the cookie banner is dismissed after the credentials are
\* typed and before the login button is clicked; the post-login signal is
\* awaited only after the click; and log_in returns only after the signal
\* was observed and the banner dismissed once more.
C33_LogInOrder ==
    (cmd \in CommandNames \ {"legacy_create_vws_license"}) =>
        LET r == ran[1]
            clicked == Places(r, "login_button.click") # {}
            awaiting == /\ seg = 1
                        /\ wait_step.fn = "wait_for_logged_in"
                        /\ wait_status # "idle"
        IN
        /\ After(r, Dismiss, {"email.send_keys", "password.send_keys"})
        /\ After(r, "login_button.click",
                 {"email.send_keys", "password.send_keys", Dismiss})
        /\ After(r, "logged_in", {"login_button.click"})
        /\ awaiting => clicked
        /\ LoggedIn =>
              /\ Cardinality(Places(r, Dismiss)) = 2
              /\ Len(r) >= 2
              /\ r[Len(r)] = Dismiss
              /\ r[Len(r) - 1] = "logged_in"
              /\ After(r, "logged_in", {"login_button.click"})

C33_Witness ==
    /\ cmd = "create_vws_license"
    /\ Len(attempt_logs[1]) = 2
    /\ LoggedIn
    /\ seg = 2
    /\ Places(ran[1], "login_button.click") = {8}
    /\ Places(ran[1], Dismiss) = {6, 10}

\* Every attempt so far of function i of the command ended with a timeout.
AllTimedOut(i) ==
    \A k \in 1..Len(attempt_logs[i]) : attempt_logs[i][k] = TimedOut

DeleteEnded == cmd = "delete_vws_license" /\ seg = 2 /\ pc # "run"

\* C35 (as stated): a call of delete_license that ends with an error has
\* not clicked the confirmation button in any attempt, and a call that
\* returns has clicked it exactly once over all its attempts.
C35_FailedDeleteNeverConfirmed ==
    DeleteEnded =>
        /\ Last(attempt_logs[2]) # "ok" => submits = 0
        /\ Last(attempt_logs[2]) = "ok" => submits = 1

\* C35 (amended): an attempt of delete_license clicks the confirmation
\* button at most once, after it clicked the license's row and the delete
\* link; the attempt that returns has clicked it; and an attempt that ends
\* with an error after the click ended in the wait for the dialog to go:
\* a call that ends with an error has clicked only in attempts that got as
\* far as that wait.
C35_ConfirmedOncePerAttempt ==
    cmd = "delete_vws_license" =>
        LET r == ran[2]
            clicked == Places(r, "confirm_button.click") # {}
            begun == Len(attempt_logs[2])
                        + (IF seg = 2 /\ pc = "run" THEN 1 ELSE 0)
        IN
        /\ Cardinality(Places(r, "confirm_button.click")) <= 1
        /\ After(r, "confirm_button.click",
                 {"_click_license_row", "delete_link.click",
                  "clickable(delete)"})
        /\ submits <= begun
        /\ begun <= 3
        /\ DeleteEnded =>
              /\ Last(attempt_logs[2]) = "ok" => clicked /\ submits >= 1
              /\ (Last(attempt_logs[2]) # "ok" /\ clicked) =>
                    /\ wait_step.name = "staleness_of(confirm_button)"
                    /\ wait_status \in {"raised", "timeout"}
              /\ (Last(attempt_logs[2]) # "ok" /\ ~clicked) =>
                    submits <= begun - 1

C35_Witness ==
    /\ DeleteEnded
    /\ attempt_logs[2] = <<TimedOut, TimedOut, TimedOut>>
    /\ err = "RetryError"
    /\ submits = 1
    /\ Places(ran[2], "confirm_button.click") = {}

\* The commands that call create_cloud_database and create_vumark_database:
\* log_in, the dialog-opening phase and the rest of the function.
DatabaseCommands ==
    {"create_vws_cloud_database", "create_vws_vumark_database"}

\* C36: of create_cloud_database and create_vumark_database only the
\* dialog-opening phase is retried on a timeout; a timeout of a later wait
\* reaches the caller as TimeoutException; and the generate button is
\* clicked only after the dialog opened, the database name was typed and,
\* for a cloud database, the license was selected.
C36_OnlyDialogOpeningRetried ==
    cmd \in DatabaseCommands =>
        LET cloud == Cmd.segments[3].fn = "create_cloud_database"
            generated == Places(ran[3], "generate_button.click") # {}
        IN
        /\ Len(attempt_logs[2]) <= 3
        /\ Len(attempt_logs[3]) <= 1
        /\ seg = 3 => attempt = 1
        /\ attempt_logs[3] = <<TimedOut>> =>
              /\ pc # "run"
              /\ err = TimedOut
              /\ wait_status = "timeout"
              /\ wait_step.fn \in {"create_cloud_database",
                                   "_submit_add_database_dialog"}
        /\ (generated \/ submits > 0) =>
              /\ generated /\ submits = 1
              /\ Last(attempt_logs[2]) = "ok"
              /\ After(ran[2], "database_name.send_keys",
                       {"add_database_button.click",
                        "presence(database-name)"})
              /\ Places(ran[2], "database_name.send_keys") # {}
              /\ cloud => After(ran[3], "generate_button.click",
                                {"cloud_radio.click",
                                 "license option present",
                                 "select_by_visible_text"})
              /\ ~cloud => After(ran[3], "generate_button.click",
                                 {"vumark_radio.click"})

C36_Witness ==
    /\ cmd = "create_vws_cloud_database"
    /\ attempt_logs[2] = <<TimedOut, "ok">>
    /\ attempt_logs[3] = <<TimedOut>>
    /\ wait_step.name = "staleness_of(generate_button)"
    /\ submits = 1
    /\ err = TimedOut

\* The commands of the claim that print a result.
PrintingCommands ==
    {"get_vumark_instance_id", "wait_for_vumark_instance_id",
     "show_database_details", "show_vumark_database_details"}

\* Every function of the command was called and returned.
AllReturned ==
    /\ err = "none"
    /\ \A i \in 1..Len(Cmd.segments) :
          attempt_logs[i] # <<>> /\ Last(attempt_logs[i]) = "ok"

\* C37: the printing commands write their output only after the browser
\* session was released and only when log_in and the flow succeeded; a
\* command that failed has printed nothing; and wait-for-vumark-instance-id
\* calls get_vumark_target_id only after wait_for_vumark_target_link
\* returned.
C37_PrintAfterReleaseOnSuccess ==
    cmd \in PrintingCommands =>
        /\ (printed \/ pc = "echo" \/ output # <<>>) =>
              /\ session = "released"
              /\ releases = 1
              /\ AllReturned
        /\ printed <=> (pc = "exit" /\ err = "none")
        /\ ~printed => output = <<>>
        /\ (pc = "exit" /\ err # "none") => ~printed /\ output = <<>>
        /\ cmd = "wait_for_vumark_instance_id" =>
              /\ Cmd.segments[2].fn = "wait_for_vumark_target_link"
              /\ Cmd.segments[3].fn = "get_vumark_target_id"
              /\ (seg = 3 \/ attempt_logs[3] # <<>> \/ ran[3] # <<>>) =>
                    /\ attempt_logs[2] # <<>>
                    /\ Last(attempt_logs[2]) = "ok"

C37_Witness ==
    /\ cmd = "wait_for_vumark_instance_id"
    /\ printed
    /\ session = "released"
    /\ output = <<instance_id>>
    /\ Len(attempt_logs[2]) >= 2

\* The rows whose whitespace-stripped text is the requested name.
ExactRows == {k \in 1..Len(rows) : str_strip(rows[k]) = row_name}

\* The rows that hold the name without being it.
ContainingRows ==
    {k \in 1..Len(rows) : HasFragment(rows[k], row_name)} \ ExactRows

\* C38: one evaluation of the row predicate of navigate_to_database and
\* delete_license clicks at most one row, the first row in document order
\* whose stripped text equals the requested name, never a row that merely
\* contains the name, and reports success only after it clicked.
C38_ExactRowClicked ==
    /\ Len(row_clicks) <= 1
    /\ \A i \in 1..Len(row_clicks) :
          /\ row_clicks[i] \in ExactRows
          /\ \A k \in ExactRows : row_clicks[i] <= k
          /\ row_clicks[i] \notin ContainingRows
    /\ returned = "True" => Len(row_clicks) = 1
    /\ returned = "False" => row_clicks = <<>> /\ ExactRows = {}
    /\ returned \in {"True", "False", "WebDriverException"} =>
          (returned = "False" <=> ExactRows = {})

C38_Witness ==
    /\ returned = "True"
    /\ Len(rows) = 2
    /\ 1 \in ContainingRows
    /\ row_clicks = <<2>>

\* The call site passes an argument otherwise than by keyword.
HasNonKeyword ==
    is_call_expr /\ \E i \in 1..Len(arg_kinds) : arg_kinds[i] # ARG_NAMED

\* C39: named_argument_checker reports a failure for every call site with
\* an argument that is not passed by keyword, reports nothing for a call
\* whose arguments are all passed by keyword, and returns normally in both
\* cases.
C39_HookFlagsNonKeywordCalls ==
    hook \notin {"idle", "called"} =>
        /\ hook = "returned"
        /\ HasNonKeyword => failures >= 1
        /\ ~HasNonKeyword => failures = 0

====
